---- MODULE Spec2Model ----
(***************************************************************************)
(* A model of GNU diff3 (src/src/diff3.c): option parsing, the two runs    *)
(* of the diff provider and their parsing into hunk chains, the three-way  *)
(* reconciler make_3way_diff / using_to_diff3_block, the three renderers   *)
(* and the exit status.                                                    *)
(*                                                                         *)
(* A line is the sequence of its bytes, newline included; stdout is the    *)
(* sequence of bytes written.  A chain (of diff_block or diff3_block) is a *)
(* sequence, its `next' pointers being the order of the sequence.          *)
(***************************************************************************)
EXTENDS Integers, Sequences, FiniteSets, TLC

(***************************************************************************)
(* Bounds of the model.                                                    *)
(***************************************************************************)
MaxC == 2          \* lines of the common file
MaxNew == 1        \* lines a hunk holds for the other file
MaxHunks == 2      \* hunks of one pairwise diff, reconciler specification
RunHunks == 1      \* hunks of one pairwise diff, whole-run specification
MaxOpts == 2       \* options on the command line

(***************************************************************************)
(* Enumerations of diff3.c.                                                *)
(***************************************************************************)
FILE0 == 0
FILE1 == 1
FILE2 == 2
FILEC == FILE2
FO == 0
FC == 1
RANGE_START == 1
RANGE_END == 2

DIFF_ERROR == "DIFF_ERROR"
DIFF_ADD == "DIFF_ADD"
DIFF_CHANGE == "DIFF_CHANGE"
DIFF_DELETE == "DIFF_DELETE"
DIFF_ALL == "DIFF_ALL"
DIFF_1ST == "DIFF_1ST"
DIFF_2ND == "DIFF_2ND"
DIFF_3RD == "DIFF_3RD"

EXIT_SUCCESS == 0
EXIT_TROUBLE == 2

(***************************************************************************)
(* Bytes.                                                                  *)
(***************************************************************************)
NL == 10
Texts == {97, 98}
Line(t) == <<t, NL>>
NULL == <<>>       \* a line slot xicalloc zeroed and nothing filled

(***************************************************************************)
(* Accessor macros, for diff_block and diff3_block alike.                  *)
(***************************************************************************)
D_LOWLINE(diff, filenum) == diff.ranges[filenum][RANGE_START]
D_HIGHLINE(diff, filenum) == diff.ranges[filenum][RANGE_END]
D_NUMLINES(diff, filenum) == D_HIGHLINE(diff, filenum) - D_LOWLINE(diff, filenum) + 1
D_RELNUM(diff, filenum, linenum) == diff.lines[filenum][linenum + 1]
D_LINEARRAY(diff, filenum) == diff.lines[filenum]
D_HIGH_MAPLINE(diff, fromfile, tofile, linenum) ==
    linenum - D_HIGHLINE(diff, fromfile) + D_HIGHLINE(diff, tofile)
D_LOW_MAPLINE(diff, fromfile, tofile, linenum) ==
    linenum - D_LOWLINE(diff, fromfile) + D_LOWLINE(diff, tofile)

(***************************************************************************)
(* The files and the diff provider.  The common file is fixed; the other   *)
(* file of a pairwise diff is the common file with a chain of edits        *)
(* applied, an edit replacing common lines lowC..highC (none when          *)
(* highC = lowC - 1) by the lines `new'.  The provider prints the chain in *)
(* normal diff format, first file the other file, second file the common   *)
(* one as it saw it.                                                       *)
(***************************************************************************)
CommonFile == [i \in 1..MaxC |-> Line(IF i % 2 = 1 THEN 97 ELSE 98)]

Views ==
    {CommonFile} \cup {[CommonFile EXCEPT ![i] = Line(t)] : i \in 1..MaxC, t \in Texts}

NewSeqs == UNION {[1..n -> {Line(t) : t \in Texts}] : n \in 0..MaxNew}

Edits ==
    {e \in [lowC : 1..(MaxC + 1), highC : 0..MaxC, new : NewSeqs] :
        /\ e.highC >= e.lowC - 1
        /\ (e.highC = e.lowC - 1 => e.new # <<>>)}

Follows(e1, e2) == e2.lowC > e1.lowC /\ e2.lowC > e1.highC

RECURSIVE EditChains(_)
EditChains(n) ==
    IF n = 0 THEN {<<>>}
    ELSE LET shorter == EditChains(n - 1)
         IN  shorter \cup
             {Append(c, e) : <<c, e>> \in
                 {ce \in shorter \X Edits :
                     /\ Len(ce[1]) = n - 1
                     /\ (ce[1] # <<>> => Follows(ce[1][Len(ce[1])], ce[2]))}}

RECURSIVE ApplyEdits(_, _, _)
ApplyEdits(chain, file, from) ==
    IF chain = <<>> THEN SubSeq(file, from, Len(file))
    ELSE SubSeq(file, from, Head(chain).lowC - 1) \o Head(chain).new
         \o ApplyEdits(Tail(chain), file, Head(chain).highC + 1)

\* "\n\\ No newline at end of file\n"
NoNewlineNote ==
    <<10, 92, 32, 78, 111, 32, 110, 101, 119, 108, 105, 110, 101, 32, 97, 116, 32,
      101, 110, 100, 32, 111, 102, 32, 102, 105, 108, 101, 10>>

\* What the provider prints of a line after "< " or "> ": the line, and for a
\* line without a newline the newline and the note that it had none.
PrintBody(line) ==
    IF line[Len(line)] = NL THEN line ELSE line \o NoNewlineNote

RECURSIVE PrintBodies(_)
PrintBodies(lines) ==
    IF lines = <<>> THEN <<>>
    ELSE <<PrintBody(Head(lines))>> \o PrintBodies(Tail(lines))

NormalHunk(e, off, view) ==
    LET lowO == e.lowC + off
        highO == lowO + Len(e.new) - 1
    IN  IF e.new = <<>>
        THEN [r0 |-> <<lowO - 1, lowO - 1>>, letter |-> "a", r1 |-> <<e.lowC, e.highC>>,
              a |-> <<>>, b |-> PrintBodies(SubSeq(view, e.lowC, e.highC))]
        ELSE IF e.highC = e.lowC - 1
        THEN [r0 |-> <<lowO, highO>>, letter |-> "d", r1 |-> <<e.lowC - 1, e.lowC - 1>>,
              a |-> PrintBodies(e.new), b |-> <<>>]
        ELSE [r0 |-> <<lowO, highO>>, letter |-> "c", r1 |-> <<e.lowC, e.highC>>,
              a |-> PrintBodies(e.new), b |-> PrintBodies(SubSeq(view, e.lowC, e.highC))]

RECURSIVE DiffOutput(_, _, _)
DiffOutput(chain, off, view) ==
    IF chain = <<>> THEN <<>>
    ELSE LET e == Head(chain)
         IN  <<NormalHunk(e, off, view)>>
             \o DiffOutput(Tail(chain), off + Len(e.new) - (e.highC - e.lowC + 1), view)

(***************************************************************************)
(* The hunk parser.                                                        *)
(***************************************************************************)
process_diff_control(entry) ==
    LET type == CASE entry.letter = "a" -> DIFF_ADD
                  [] entry.letter = "c" -> DIFF_CHANGE
                  [] entry.letter = "d" -> DIFF_DELETE
                  [] OTHER -> DIFF_ERROR
    IN  [type |-> type, ranges |-> (FO :> entry.r0 @@ FC :> entry.r1)]

\* scan_diff_line keeping the newline in every mode.
scan_diff_line_KeepsNewline(body, edscript) ==
    LET nl == CHOOSE i \in 1..Len(body) :
                  body[i] = NL /\ \A j \in 1..(i - 1) : body[j] # NL
    IN  SubSeq(body, 1, nl)

\* Lines 1234-1268: the line stored for what follows "< " or "> ": its bytes
\* up to the newline, which is left out when the next line starts with a
\* backslash and no edit script is being made.
scan_diff_line(body, edscript) ==
    LET nl == CHOOSE i \in 1..Len(body) :
                  body[i] = NL /\ \A j \in 1..(i - 1) : body[j] # NL
        backslash == nl < Len(body) /\ body[nl + 1] = 92
    IN  SubSeq(body, 1, IF backslash /\ ~edscript THEN nl - 1 ELSE nl)

\* Lines 953-958 and 974-979: the lines of one side of a hunk.
RECURSIVE ScanLines(_, _)
ScanLines(bodies, edscript) ==
    IF bodies = <<>> THEN <<>>
    ELSE <<scan_diff_line(Head(bodies), edscript)>> \o ScanLines(Tail(bodies), edscript)

\* ParseHunk leaving the ranges as process_diff_control read them.
ParseHunk_RangesAsRead(entry, edscript) ==
    LET ctl == process_diff_control(entry)
    IN  [ranges |-> ctl.ranges,
         lines |-> (FO :> (IF ctl.type # DIFF_ADD
                           THEN ScanLines(entry.a, edscript) ELSE NULL)
                    @@ FC :> (IF ctl.type # DIFF_DELETE
                              THEN ScanLines(entry.b, edscript) ELSE NULL))]

\* One diff_block, from one entry whose control line process_diff_control read.
ParseHunk(entry, edscript) ==
    LET ctl == process_diff_control(entry)
        dt == ctl.type
        ranges == CASE dt = DIFF_ADD ->
                         [ctl.ranges EXCEPT ![FO][RANGE_START] = @ + 1]
                    [] dt = DIFF_DELETE ->
                         [ctl.ranges EXCEPT ![FC][RANGE_START] = @ + 1]
                    [] OTHER -> ctl.ranges
    IN  [ranges |-> ranges,
         lines |-> (FO :> (IF dt # DIFF_ADD THEN ScanLines(entry.a, edscript) ELSE NULL)
                    @@ FC :> (IF dt # DIFF_DELETE THEN ScanLines(entry.b, edscript) ELSE NULL))]

\* The entries process_diff cannot parse end the run.
Parses(entries) ==
    \A k \in 1..Len(entries) : process_diff_control(entries[k]).type # DIFF_ERROR

RECURSIVE process_diff(_, _)
process_diff(entries, edscript) ==
    IF entries = <<>> THEN <<>>
    ELSE <<ParseHunk(Head(entries), edscript)>> \o process_diff(Tail(entries), edscript)

(***************************************************************************)
(* The block builder.                                                      *)
(***************************************************************************)
\* memcmp (a, b, n) == 0
memcmp0(a, b, n) == \A i \in 1..n : a[i] = b[i]

\* copy_stringlist without the comparison: a filled slot is overwritten.
RECURSIVE copy_stringlist_NoCompare(_, _, _, _)
copy_stringlist_NoCompare(fromptrs, toptrs, result_offset, copynum) ==
    IF copynum <= 0 THEN [ok |-> TRUE, to |-> toptrs]
    ELSE copy_stringlist_NoCompare(Tail(fromptrs),
                                   [toptrs EXCEPT ![result_offset + 1] = Head(fromptrs)],
                                   result_offset + 1, copynum - 1)

\* Copies COPYNUM lines into TOPTRS from slot RESULT_OFFSET on; a slot already
\* filled must hold the same line.  [ok, to]: the result and the array after.
RECURSIVE copy_stringlist(_, _, _, _)
copy_stringlist(fromptrs, toptrs, result_offset, copynum) ==
    IF copynum <= 0 THEN [ok |-> TRUE, to |-> toptrs]
    ELSE LET f == Head(fromptrs)
             t == toptrs[result_offset + 1]
         IN  IF t # NULL
             THEN IF Len(f) # Len(t) \/ ~memcmp0(f, t, Len(f))
                  THEN [ok |-> FALSE, to |-> toptrs]
                  ELSE copy_stringlist(Tail(fromptrs), toptrs,
                                       result_offset + 1, copynum - 1)
             ELSE copy_stringlist(Tail(fromptrs),
                                  [toptrs EXCEPT ![result_offset + 1] = f],
                                  result_offset + 1, copynum - 1)

\* xzalloc: NUMLINES null pointers.
RECURSIVE ZeroedLines(_)
ZeroedLines(numlines) ==
    IF numlines > 0 THEN Append(ZeroedLines(numlines - 1), NULL) ELSE NULL

create_diff3_block(low0, high0, low1, high1, low2, high2) ==
    [correspond |-> DIFF_ERROR,
     ranges |-> (FILE0 :> <<low0, high0>> @@ FILE1 :> <<low1, high1>>
                 @@ FILE2 :> <<low2, high2>>),
     lines |-> (FILE0 :> ZeroedLines(high0 - low0 + 1)
                @@ FILE1 :> ZeroedLines(high1 - low1 + 1)
                @@ FILE2 :> ZeroedLines(high2 - low2 + 1))]

RECURSIVE compare_line_list(_, _, _)
compare_line_list(list1, list2, nl) ==
    IF nl <= 0 THEN TRUE
    ELSE LET l1 == Head(list1)
             l2 == Head(list2)
         IN  IF l1 = NULL \/ l2 = NULL \/ Len(l1) # Len(l2) \/ ~memcmp0(l1, l2, Len(l1))
             THEN FALSE
             ELSE compare_line_list(Tail(list1), Tail(list2), nl - 1)

\* The common lines of the hunks PTRS, copied into the block's FILEC array.
RECURSIVE CopyCommon(_, _, _)
CopyCommon(ptrs, toC, lowc) ==
    IF ptrs = <<>> THEN [ok |-> TRUE, to |-> toC]
    ELSE LET ptr == Head(ptrs)
             r == copy_stringlist(D_LINEARRAY(ptr, FC), toC,
                                  D_LOWLINE(ptr, FC) - lowc, D_NUMLINES(ptr, FC))
         IN  IF ~r.ok THEN r ELSE CopyCommon(Tail(ptrs), r.to, lowc)

\* The loop that copies nothing.
FillGap_Nothing(toD, fromC, i, linec, limit) == toD

\* for (; i < limit; i++) toD[i] = fromC[linec++]
RECURSIVE FillGap(_, _, _, _, _)
FillGap(toD, fromC, i, linec, limit) ==
    IF i >= limit THEN toD
    ELSE FillGap([toD EXCEPT ![i + 1] = fromC[linec + 1]], fromC, i + 1, linec + 1, limit)

\* The other file's lines of the hunks PTRS, and the common lines up to the
\* next hunk, copied into the block's array for file d.
RECURSIVE CopyOther(_, _, _, _, _, _)
CopyOther(ptrs, toD, fromC, lo, hi, lowc) ==
    IF ptrs = <<>> THEN [ok |-> TRUE, to |-> toD]
    ELSE LET ptr == Head(ptrs)
             r == copy_stringlist(D_LINEARRAY(ptr, FO), toD,
                                  D_LOWLINE(ptr, FO) - lo, D_NUMLINES(ptr, FO))
             limit == (IF Tail(ptrs) # <<>> THEN D_LOWLINE(Head(Tail(ptrs)), FO)
                       ELSE hi + 1) - lo
         IN  IF ~r.ok THEN r
             ELSE CopyOther(Tail(ptrs),
                            FillGap(r.to, fromC, D_HIGHLINE(ptr, FO) + 1 - lo,
                                    D_HIGHLINE(ptr, FC) + 1 - lowc, limit),
                            fromC, lo, hi, lowc)

\* Lines 763-782 comparing the line counts alone.
SetCorrespond_CountsOnly(using, result) ==
    IF using[0] = <<>> THEN DIFF_2ND
    ELSE IF using[1] = <<>> THEN DIFF_1ST
    ELSE IF D_NUMLINES(result, FILE0) # D_NUMLINES(result, FILE1) THEN DIFF_ALL
    ELSE DIFF_3RD

\* Lines 763-782 with the second test dropped: a block that thread 0 has a
\* hunk in is laid to file 0 alone.
SetCorrespond_Thread0Alone(using, result) ==
    IF using[0] = <<>> THEN DIFF_2ND ELSE DIFF_1ST

\* Lines 763-782.
SetCorrespond(using, result) ==
    IF using[0] = <<>> THEN DIFF_2ND
    ELSE IF using[1] = <<>> THEN DIFF_1ST
    ELSE LET nl0 == D_NUMLINES(result, FILE0)
             nl1 == D_NUMLINES(result, FILE1)
         IN  IF nl0 # nl1 \/ ~compare_line_list(D_LINEARRAY(result, FILE0),
                                                D_LINEARRAY(result, FILE1), nl0)
             THEN DIFF_ALL
             ELSE DIFF_3RD

\* A pointer to a block is <<block>>, the null pointer <<>>.
using_to_diff3_block(using, last_using, low_thread, high_thread, last_diff3) ==
    LET lowc == D_LOWLINE(Head(using[low_thread]), FC)
        highc == D_HIGHLINE(last_using[high_thread], FC)
        low == [d \in 0..1 |->
                  IF using[d] # <<>>
                  THEN D_LOW_MAPLINE(Head(using[d]), FC, FO, lowc)
                  ELSE D_HIGH_MAPLINE(last_diff3, FILEC, FILE0 + d, lowc)]
        high == [d \in 0..1 |->
                   IF using[d] # <<>>
                   THEN D_HIGH_MAPLINE(last_using[d], FC, FO, highc)
                   ELSE D_HIGH_MAPLINE(last_diff3, FILEC, FILE0 + d, highc)]
        created == create_diff3_block(low[0], high[0], low[1], high[1], lowc, highc)
        common == CopyCommon(using[0] \o using[1], D_LINEARRAY(created, FILEC), lowc)
        first == [d \in 0..1 |->
                    FillGap(D_LINEARRAY(created, FILE0 + d), common.to, 0, 0,
                            (IF using[d] # <<>> THEN D_LOWLINE(Head(using[d]), FO)
                             ELSE high[d] + 1) - low[d])]
        other == [d \in 0..1 |->
                    CopyOther(using[d], first[d], common.to, low[d], high[d], lowc)]
        result == [created EXCEPT !.lines =
                      (FILE0 :> other[0].to @@ FILE1 :> other[1].to @@ FILEC :> common.to)]
    IN  IF ~common.ok \/ ~other[0].ok \/ ~other[1].ok THEN <<>>
        ELSE <<[result EXCEPT !.correspond = SetCorrespond(using, result)]>>

(***************************************************************************)
(* The reconciler: the locals of make_3way_diff and the steps of its loops.*)
(***************************************************************************)
zero_diff3 ==
    [correspond |-> DIFF_ERROR,
     ranges |-> (FILE0 :> <<0, 0>> @@ FILE1 :> <<0, 0>> @@ FILE2 :> <<0, 0>>),
     lines |-> (FILE0 :> NULL @@ FILE1 :> NULL @@ FILE2 :> NULL)]

LastOf(chain) == IF chain = <<>> THEN NULL ELSE chain[Len(chain)]

NoLocals ==
    [current |-> (0 :> <<>> @@ 1 :> <<>>), using |-> (0 :> <<>> @@ 1 :> <<>>),
     base_water_thread |-> 0, high_water_thread |-> 0, high_water_mark |-> 0]

\* Lines 584-598: the hunk with the lowest common line opens the window.
SetupWater(current) ==
    LET base_water_thread ==
            IF current[0] = <<>> THEN 1
            ELSE IF current[1] = <<>> THEN 0
            ELSE IF D_LOWLINE(Head(current[0]), FC) > D_LOWLINE(Head(current[1]), FC)
                 THEN 1 ELSE 0
        high_water_diff == Head(current[base_water_thread])
    IN  [current |-> [current EXCEPT ![base_water_thread] = Tail(@)],
         using |-> [d \in 0..1 |-> IF d = base_water_thread
                                   THEN <<high_water_diff>> ELSE <<>>],
         base_water_thread |-> base_water_thread,
         high_water_thread |-> base_water_thread,
         high_water_mark |-> D_HIGHLINE(high_water_diff, FC)]

\* The test of the inner loop with the "+ 1" dropped: a hunk that starts on the
\* line after the high water mark is left for the next block.
OtherIncorporated_NoAdjacency(m) ==
    LET other_diff == m.current[1 - m.high_water_thread]
    IN  /\ other_diff # <<>>
        /\ D_LOWLINE(Head(other_diff), FC) <= m.high_water_mark

\* The test of the inner loop passing over the hunks with no common line.
OtherIncorporated_SkipsInsertions(m) ==
    LET other_diff == m.current[1 - m.high_water_thread]
    IN  /\ other_diff # <<>>
        /\ D_LOWLINE(Head(other_diff), FC) <= m.high_water_mark + 1
        /\ D_NUMLINES(Head(other_diff), FC) > 0

\* Lines 606-607: the test of the inner loop.
OtherIncorporated(m) ==
    LET other_diff == m.current[1 - m.high_water_thread]
    IN  /\ other_diff # <<>>
        /\ D_LOWLINE(Head(other_diff), FC) <= m.high_water_mark + 1

\* The body of the inner loop without the append to the using list.
ShuffleUp_Dropped(m) ==
    LET other_thread == 1 - m.high_water_thread
        other_diff == Head(m.current[other_thread])
        higher == m.high_water_mark < D_HIGHLINE(other_diff, FC)
    IN  [m EXCEPT !.current[other_thread] = Tail(@),
                  !.high_water_thread = IF higher THEN other_thread ELSE @,
                  !.high_water_mark = IF higher THEN D_HIGHLINE(other_diff, FC) ELSE @]

\* Lines 609-637: the body of the inner loop.
ShuffleUp(m) ==
    LET other_thread == 1 - m.high_water_thread
        other_diff == Head(m.current[other_thread])
        higher == m.high_water_mark < D_HIGHLINE(other_diff, FC)
    IN  [m EXCEPT !.using[other_thread] = Append(@, other_diff),
                  !.current[other_thread] = Tail(@),
                  !.high_water_thread = IF higher THEN other_thread ELSE @,
                  !.high_water_mark = IF higher THEN D_HIGHLINE(other_diff, FC) ELSE @]

\* Lines 643-645.
BuildBlock(m, last_diff3) ==
    using_to_diff3_block(m.using, [d \in 0..1 |-> LastOf(m.using[d])],
                         m.base_water_thread, m.high_water_thread, last_diff3)

(***************************************************************************)
(* The state.                                                              *)
(***************************************************************************)
VARIABLES
    pc,               \* where the run is
    argv,             \* the options getopt_long has not returned yet
    file,             \* the file operands
    opt,              \* the static option flags
    diff_program,     \* the name of the provider
    incompat,         \* main's bit set of the options among -AeExX3 seen
    tag_strings,      \* the -L labels, then the names the renderers print
    common,           \* which operand is the common file
    thread0, thread1, \* the two parsed pairwise diffs
    m,                \* the locals of make_3way_diff
    diff3,            \* the chain of three-way blocks
    out,              \* the bytes written to stdout
    disk,             \* the lines of the files, as the provider read them
    conflicts_found,
    exit_status       \* -1 while the process runs

vars == <<pc, argv, file, opt, diff_program, incompat, tag_strings, common, thread0, thread1, m,
          diff3, out, disk, conflicts_found, exit_status>>

OPTION_3 == 0
OPTION_A == 1
OPTION_E == 2
OPTION_X == 3
OPTION_e == 4
OPTION_x == 5

RECURSIVE Pow2(_)
Pow2(n) == IF n = 0 THEN 1 ELSE 2 * Pow2(n - 1)

\* incompat | (1 << bit)
OrBit(set, bit) == IF (set \div Pow2(bit)) % 2 = 1 THEN set ELSE set + Pow2(bit)

\* A test that finds no two options.
MoreThanOneBit_None(set) == FALSE

\* incompat & (incompat - 1): nonzero iff more than one bit is set
MoreThanOneBit(set) == \E b \in 0..5 : set > Pow2(b) /\ (set \div Pow2(b)) % 2 = 1

Dash == <<45>>
FileName(i) == <<102, 48 + i>>
Label(k) == <<76, 48 + k>>

OptionLetters ==
    {"a", "A", "x", "3", "i", "m", "X", "E", "e", "T", "strip-trailing-cr", "L", "v",
     "diff-program", "help", "?"}

\* Line 199, and the argument of --diff-program.
DEFAULT_DIFF_PROGRAM == "diff"
OtherProgram == "prog"

CommandLines == UNION {[1..n -> OptionLetters] : n \in 0..MaxOpts}

Operands ==
    {<<FileName(0), FileName(1)>>,
     <<FileName(0), FileName(1), FileName(2), FileName(3)>>}
    \cup {[i \in 1..3 |-> IF (i - 1) \in dashes THEN Dash ELSE FileName(i - 1)] :
             dashes \in SUBSET (0..2)}

\* Nothing read yet.
\* disk[STDIN]: the bytes read from stdin once line 400 has opened MINE on it.
STDIN == 3

NoFiles == (FILE0 :> <<>> @@ FILE1 :> <<>> @@ FILEC :> <<>> @@ STDIN :> <<>>)

NoFlags ==
    [text |-> FALSE, strip_trailing_cr |-> FALSE, edscript |-> FALSE,
     flagging |-> FALSE, simple_only |-> FALSE, overlap_only |-> FALSE,
     show_2nd |-> FALSE, initial_tab |-> FALSE, finalwrite |-> FALSE, merge |-> FALSE]

Init ==
    /\ pc = "getopt"
    /\ argv \in CommandLines
    /\ file \in Operands
    /\ opt = NoFlags
    /\ incompat = 0
    /\ diff_program = DEFAULT_DIFF_PROGRAM
    /\ tag_strings = <<>>
    /\ common = 2
    /\ thread0 = <<>>
    /\ thread1 = <<>>
    /\ m = NoLocals
    /\ diff3 = <<>>
    /\ out = <<>>
    /\ disk = NoFiles
    /\ conflicts_found = FALSE
    /\ exit_status = -1

\* exit (status)
Exit(status) == pc' = "exit" /\ exit_status' = status

\* try_help with a status other than the trouble status.
try_help_Failure == Exit(1)

\* lib/diagnose.c: error (EXIT_TROUBLE, 0, "Try '%s --help' ...")
try_help == Exit(EXIT_TROUBLE)

\* A fatal error that ends the run with the status of a conflict.
fatal_Conflict == Exit(1)

\* error (EXIT_TROUBLE, 0, "%s", msgid)
fatal == Exit(EXIT_TROUBLE)

\* check_stdout () and then exit (status) or return status from main: a failed
\* write or close of stdout ends the run through fatal or perror_with_exit.
check_stdout(status) == Exit(status) \/ fatal

\* What version_etc and usage print starts with these words.
VersionText == <<100, 105, 102, 102, 51, 32>>
UsageText == <<85, 115, 97, 103, 101, 58, 32>>

(***************************************************************************)
(* main: the options.                                                      *)
(***************************************************************************)
\* Lines 247-312: one turn of the getopt_long loop.
Getopt ==
    /\ pc = "getopt"
    /\ argv # <<>>
    /\ argv' = Tail(argv)
    /\ LET c == Head(argv)
       IN  CASE c = "a" ->
                  /\ opt' = [opt EXCEPT !.text = TRUE]
                  /\ UNCHANGED <<pc, diff_program, incompat, tag_strings, exit_status>>
             [] c = "A" ->
                  /\ opt' = [opt EXCEPT !.show_2nd = TRUE, !.flagging = TRUE]
                  /\ incompat' = OrBit(incompat, OPTION_A)
                  /\ UNCHANGED <<pc, diff_program, tag_strings, exit_status>>
             [] c = "x" ->
                  /\ opt' = [opt EXCEPT !.overlap_only = TRUE]
                  /\ incompat' = OrBit(incompat, OPTION_x)
                  /\ UNCHANGED <<pc, diff_program, tag_strings, exit_status>>
             [] c = "3" ->
                  /\ opt' = [opt EXCEPT !.simple_only = TRUE]
                  /\ incompat' = OrBit(incompat, OPTION_3)
                  /\ UNCHANGED <<pc, diff_program, tag_strings, exit_status>>
             [] c = "i" ->
                  /\ opt' = [opt EXCEPT !.finalwrite = TRUE]
                  /\ UNCHANGED <<pc, diff_program, incompat, tag_strings, exit_status>>
             [] c = "m" ->
                  /\ opt' = [opt EXCEPT !.merge = TRUE]
                  /\ UNCHANGED <<pc, diff_program, incompat, tag_strings, exit_status>>
             [] c = "X" ->
                  /\ opt' = [opt EXCEPT !.overlap_only = TRUE]
                  /\ incompat' = OrBit(incompat, OPTION_X)
                  /\ UNCHANGED <<pc, diff_program, tag_strings, exit_status>>
             [] c = "E" ->
                  /\ opt' = [opt EXCEPT !.flagging = TRUE]
                  /\ incompat' = OrBit(incompat, OPTION_E)
                  /\ UNCHANGED <<pc, diff_program, tag_strings, exit_status>>
             [] c = "e" ->
                  /\ incompat' = OrBit(incompat, OPTION_e)
                  /\ UNCHANGED <<pc, opt, diff_program, tag_strings, exit_status>>
             [] c = "T" ->
                  /\ opt' = [opt EXCEPT !.initial_tab = TRUE]
                  /\ UNCHANGED <<pc, diff_program, incompat, tag_strings, exit_status>>
             [] c = "strip-trailing-cr" ->
                  /\ opt' = [opt EXCEPT !.strip_trailing_cr = TRUE]
                  /\ UNCHANGED <<pc, diff_program, incompat, tag_strings, exit_status>>
             [] c = "diff-program" ->
                  /\ diff_program' = OtherProgram
                  /\ UNCHANGED <<pc, opt, incompat, tag_strings, exit_status>>
             [] c = "L" ->
                  IF Len(tag_strings) < 3
                  THEN /\ tag_strings' = Append(tag_strings, Label(Len(tag_strings)))
                       /\ UNCHANGED <<pc, opt, diff_program, incompat, exit_status>>
                  ELSE /\ try_help
                       /\ UNCHANGED <<opt, diff_program, incompat, tag_strings>>
             [] c \in {"v", "help"} ->
                  /\ check_stdout(EXIT_SUCCESS)
                  /\ UNCHANGED <<opt, diff_program, incompat, tag_strings>>
             [] OTHER ->
                  /\ try_help
                  /\ UNCHANGED <<opt, diff_program, incompat, tag_strings>>
    /\ out' = CASE Head(argv) = "v" -> out \o VersionText
                [] Head(argv) = "help" -> out \o UsageText
                [] OTHER -> out
    /\ UNCHANGED <<file, common, thread0, thread1, m, diff3, disk, conflicts_found>>

\* The flags without what -m alone implies.
ImpliedFlags_NotByMerge(flags, incompat_set) ==
    [flags EXCEPT !.edscript = incompat_set # 0 /\ ~flags.merge]

\* Lines 314-318: the flags the options imply.
ImpliedFlags(flags, incompat_set) ==
    LET implied == incompat_set = 0 /\ flags.merge
    IN  [flags EXCEPT !.edscript = incompat_set # 0 /\ ~flags.merge,
                      !.show_2nd = @ \/ implied,
                      !.flagging = @ \/ implied]

\* Lines 314-336: the flags the options imply, and the checks of the command line.
CheckOptions ==
    /\ pc = "getopt"
    /\ argv = <<>>
    /\ LET flags == ImpliedFlags(opt, incompat)
       IN  /\ opt' = flags
           /\ IF \/ MoreThanOneBit(incompat)
                 \/ (flags.finalwrite /\ flags.merge)
                 \/ (Len(tag_strings) # 0 /\ ~flags.flagging)
                 \/ Len(file) # 3
              THEN /\ try_help
                   /\ UNCHANGED tag_strings
              ELSE /\ pc' = "common"
                   /\ tag_strings' = [i \in 1..3 |-> IF i <= Len(tag_strings)
                                                    THEN tag_strings[i] ELSE file[i]]
                   /\ UNCHANGED exit_status
    /\ UNCHANGED <<argv, file, diff_program, incompat, common, thread0, thread1, m, diff3,
                   out, disk, conflicts_found>>

\* Lines 354-364.
ChooseCommon ==
    /\ pc = "common"
    /\ LET first == 2 - (IF opt.edscript \/ opt.merge THEN 1 ELSE 0)
       IN  IF file[first + 1] = Dash
           THEN /\ common' = 3 - first
                /\ IF file[1] = Dash \/ file[(3 - first) + 1] = Dash
                   THEN fatal
                   ELSE pc' = "diff1" /\ UNCHANGED exit_status
           ELSE /\ common' = first
                /\ pc' = "diff1"
                /\ UNCHANGED exit_status
    /\ UNCHANGED <<argv, file, opt, diff_program, incompat, tag_strings, thread0, thread1, m, diff3,
                   out, disk, conflicts_found>>

\* Lines 366-369.
Mapping(c) == (0 :> 0 @@ 1 :> 3 - c @@ 2 :> c)
RevMapping(c) == [i \in 0..2 |-> CHOOSE k \in 0..2 : Mapping(c)[k] = i]

(***************************************************************************)
(* main: the two pairwise diffs.                                           *)
(***************************************************************************)
\* Output of the provider that is not in normal diff format.
Garbage == <<[r0 |-> <<1, 1>>, letter |-> "?", r1 |-> <<1, 1>>, a |-> <<>>, b |-> <<>>]>>

\* process_diff on the provider's output ENTRIES; OTHER and VIEW are the lines
\* the provider read from the two files.
ProcessEntries(entries, other, view) ==
    IF ~Parses(entries)
    THEN /\ fatal
         /\ UNCHANGED <<thread0, thread1, disk>>
    ELSE /\ IF pc = "diff1"
            THEN /\ thread1' = process_diff(entries, opt.edscript)
                 /\ disk' = [disk EXCEPT ![FILE1] = other, ![FILEC] = view]
                 /\ UNCHANGED thread0
            ELSE /\ thread0' = process_diff(entries, opt.edscript)
                 /\ disk' = [disk EXCEPT ![FILE0] = other]
                 /\ UNCHANGED thread1
         /\ pc' = IF pc = "diff1" THEN "diff0" ELSE "make3way"
         /\ UNCHANGED exit_status

\* Lines 379-382: read_diff and process_diff for one pair of files, thread 1
\* first.
ProcessDiff(maxhunks) ==
    /\ pc \in {"diff1", "diff0"}
    /\ \/ \* lines 1211-1223: the provider failed
          /\ fatal
          /\ UNCHANGED <<thread0, thread1, disk>>
       \/ ProcessEntries(Garbage, CommonFile, CommonFile)
       \/ \E chain \in EditChains(maxhunks) :
            \E view \in (IF pc = "diff1" THEN Views ELSE {CommonFile}) :
                ProcessEntries(DiffOutput(chain, 0, view), ApplyEdits(chain, view, 1), view)
    /\ UNCHANGED <<argv, file, opt, diff_program, incompat, tag_strings, common, m, diff3, out,
                   conflicts_found>>

(***************************************************************************)
(* make_3way_diff, a step of its loops at a time.                          *)
(***************************************************************************)
\* Lines 568-573.
M3Enter ==
    /\ pc = "make3way"
    /\ pc' = "sniff"
    /\ m' = [NoLocals EXCEPT !.current = (0 :> thread0 @@ 1 :> thread1)]
    /\ UNCHANGED <<argv, file, opt, diff_program, incompat, tag_strings, common, thread0, thread1,
                   diff3, out, disk, conflicts_found, exit_status>>

\* The first block of the chain in the place of the last one.
last_diff3_First == IF diff3 = <<>> THEN zero_diff3 ELSE diff3[1]

\* Lines 573 and 655: the block before the one being built.
last_diff3 == IF diff3 = <<>> THEN zero_diff3 ELSE diff3[Len(diff3)]

\* Lines 577-598.
M3Head ==
    /\ pc = "sniff"
    /\ IF m.current[0] = <<>> /\ m.current[1] = <<>>
       THEN pc' = "output" /\ UNCHANGED m
       ELSE pc' = "shuffle" /\ m' = SetupWater(m.current)
    /\ UNCHANGED <<argv, file, opt, diff_program, incompat, tag_strings, common, thread0, thread1,
                   diff3, out, disk, conflicts_found, exit_status>>

\* Lines 606-638.
M3Shuffle ==
    /\ pc = "shuffle"
    /\ OtherIncorporated(m)
    /\ m' = ShuffleUp(m)
    /\ UNCHANGED <<pc, argv, file, opt, diff_program, incompat, tag_strings, common, thread0, thread1,
                   diff3, out, disk, conflicts_found, exit_status>>

\* Lines 643-655.
M3Build ==
    /\ pc = "shuffle"
    /\ ~OtherIncorporated(m)
    /\ LET tmpblock == BuildBlock(m, last_diff3)
       IN  IF tmpblock = <<>>
           THEN fatal /\ UNCHANGED diff3
           ELSE /\ diff3' = diff3 \o tmpblock
                /\ pc' = "sniff"
                /\ UNCHANGED exit_status
    /\ UNCHANGED <<argv, file, opt, diff_program, incompat, tag_strings, common, thread0, thread1, m,
                   out, disk, conflicts_found>>

(***************************************************************************)
(* The renderers.  Each yields the bytes it writes.                        *)
(***************************************************************************)
\* printf ("%d", n), n >= 0
RECURSIVE Dec(_)
Dec(n) == IF n < 10 THEN <<48 + n>> ELSE Dec(n \div 10) \o <<48 + (n % 10)>>

\* correspond - DIFF_1ST, and DIFF_1ST + k
OddFile(correspond) ==
    CASE correspond = DIFF_1ST -> 0 [] correspond = DIFF_2ND -> 1 [] correspond = DIFF_3RD -> 2

NthDiff(k) == CASE k = 0 -> DIFF_1ST [] k = 1 -> DIFF_2ND [] k = 2 -> DIFF_3RD

\* fwrite of lines FROM.. of file FILENUM of block B
RECURSIVE WriteLines(_, _, _)
WriteLines(b, filenum, from) ==
    IF from >= D_NUMLINES(b, filenum) THEN <<>>
    ELSE D_RELNUM(b, filenum, from) \o WriteLines(b, filenum, from + 1)

\* Line 1284: a tab or two spaces.
line_prefix == IF opt.initial_tab THEN <<9>> ELSE <<32, 32>>

\* Lines 1336-1350: the lines of one file of a block, each after line_prefix.
RECURSIVE PrefixedLines(_, _, _)
PrefixedLines(b, realfile, line) ==
    LET cp == D_RELNUM(b, realfile, line)
    IN  line_prefix \o cp \o
        (IF D_HIGHLINE(b, realfile) - D_LOWLINE(b, realfile) <= line
         THEN (IF cp[Len(cp)] # NL THEN NoNewlineNote ELSE <<>>)
         ELSE PrefixedLines(b, realfile, line + 1))

\* Lines 1316-1350: what output_diff3 prints of file I of block PTR.
Diff3File(ptr, i, dontprint, mapping) ==
    LET realfile == mapping[i]
        lowt == D_LOWLINE(ptr, realfile)
        hight == D_HIGHLINE(ptr, realfile)
    IN  Dec(i + 1) \o <<58>> \o
        (CASE lowt - hight = 1 -> Dec(lowt - 1) \o <<97, NL>>
           [] lowt - hight = 0 -> Dec(lowt) \o <<99, NL>>
           [] OTHER -> Dec(lowt) \o <<44>> \o Dec(hight) \o <<99, NL>>) \o
        (IF i # dontprint /\ lowt <= hight THEN PrefixedLines(ptr, realfile, 0) ELSE <<>>)

\* The files of a block always in the order of the argument list.
PrintOrder_Plain(oddoneout) == <<0, 1, 2>>

\* Lines 1313-1314: the order in which the files of a block are printed.
PrintOrder(oddoneout) == IF oddoneout = 1 THEN <<0, 2, 1>> ELSE <<0, 1, 2>>

\* The file left out being the odd file unless that is the first.
DontPrint_OddFile(oddoneout) ==
    IF oddoneout = 3 THEN 3 ELSE IF oddoneout = 0 THEN 1 ELSE oddoneout

\* Lines 1295 and 1305: the file whose lines are not printed; 3 for none.
DontPrint(oddoneout) == IF oddoneout = 3 THEN 3 ELSE IF oddoneout = 0 THEN 1 ELSE 0

\* Lines 1288-1351: one block; [fatal, text].
Diff3Block(ptr, mapping, rev_mapping) ==
    IF ptr.correspond \notin {DIFF_ALL, DIFF_1ST, DIFF_2ND, DIFF_3RD}
    THEN [fatal |-> TRUE, text |-> <<>>]
    ELSE LET oddoneout == IF ptr.correspond = DIFF_ALL THEN 3
                          ELSE rev_mapping[OddFile(ptr.correspond)]
             dontprint == DontPrint(oddoneout)
             order == PrintOrder(oddoneout)
         IN  [fatal |-> FALSE,
              text |-> <<61, 61, 61, 61>>
                       \o (IF oddoneout = 3 THEN <<>> ELSE <<49 + oddoneout>>) \o <<NL>>
                       \o Diff3File(ptr, order[1], dontprint, mapping)
                       \o Diff3File(ptr, order[2], dontprint, mapping)
                       \o Diff3File(ptr, order[3], dontprint, mapping)]

\* [fatal, text]
RECURSIVE output_diff3(_, _, _)
output_diff3(diff, mapping, rev_mapping) ==
    IF diff = <<>> THEN [fatal |-> FALSE, text |-> <<>>]
    ELSE LET one == Diff3Block(Head(diff), mapping, rev_mapping)
             rest == output_diff3(Tail(diff), mapping, rev_mapping)
         IN  IF one.fatal THEN one
             ELSE [fatal |-> rest.fatal, text |-> one.text \o rest.text]

\* [text, leading_dot]
RECURSIVE dotlines_from(_, _, _)
dotlines_from(b, filenum, i) ==
    IF i >= D_NUMLINES(b, filenum) THEN [text |-> <<>>, leading_dot |-> FALSE]
    ELSE LET line == D_RELNUM(b, filenum, i)
             rest == dotlines_from(b, filenum, i + 1)
         IN  [text |-> (IF line[1] = 46 THEN <<46>> ELSE <<>>) \o line \o rest.text,
              leading_dot |-> line[1] = 46 \/ rest.leading_dot]

dotlines(b, filenum) == dotlines_from(b, filenum, 0)

undotlines(leading_dot, start, num) ==
    <<46, NL>> \o
    (IF ~leading_dot THEN <<>>
     ELSE (IF num = 1 THEN Dec(start) ELSE Dec(start) \o <<44>> \o Dec(start + num - 1))
          \o <<115, 47, 94, 92, 46, 47, 47, NL>>)

\* reverse_diff3_blocklist leaving the list in its order.
reverse_diff3_blocklist_Kept(diff) == diff

RECURSIVE reverse_diff3_blocklist(_)
reverse_diff3_blocklist(diff) ==
    IF diff = <<>> THEN <<>>
    ELSE Append(reverse_diff3_blocklist(Tail(diff)), Head(diff))

\* The markers of a conflict.
MineMarker == <<60, 60, 60, 60, 60, 60, 60, 32>>
OlderMarker == <<124, 124, 124, 124, 124, 124, 124, 32>>
MiddleMarker == <<61, 61, 61, 61, 61, 61, 61, NL>>
YoursMarker == <<62, 62, 62, 62, 62, 62, 62, 32>>

\* The type of a block taken as it is, without the mapping of file numbers.
mapped_type_Unmapped(b, rev_mapping) == b.correspond

\* Lines 1427-1430 and 1541-1544: the type in terms of the argument list.
mapped_type(b, rev_mapping) ==
    IF b.correspond = DIFF_ALL THEN DIFF_ALL
    ELSE NthDiff(rev_mapping[OddFile(b.correspond)])

\* The switch passing the blocks in which only the first file differs.
SkipBlock_KeepsFirst(type) ==
    CASE type = DIFF_2ND -> ~opt.show_2nd
      [] type = DIFF_3RD -> opt.overlap_only
      [] type = DIFF_ALL -> opt.simple_only
      [] OTHER -> FALSE

\* The switch treating a block in which only the first file differs as it
\* treats one in which only the third does.
SkipBlock_FirstAsThird(type) ==
    CASE type = DIFF_2ND -> ~opt.show_2nd
      [] type \in {DIFF_1ST, DIFF_3RD} -> opt.overlap_only
      [] type = DIFF_ALL -> opt.simple_only
      [] OTHER -> TRUE

\* Lines 1434-1440 and 1549-1557: the blocks the options leave out.
SkipBlock(type) ==
    CASE type = DIFF_2ND -> ~opt.show_2nd
      [] type = DIFF_3RD -> opt.overlap_only
      [] type = DIFF_ALL -> opt.simple_only
      [] OTHER -> TRUE

\* The switch taking every block it passes for a conflict.
Conflict_Always(type) == TRUE

\* The switch taking a block in which all three files differ for a conflict
\* whether or not flagging is set.
Conflict_AllDifferUnflagged(type) == type \in {DIFF_2ND, DIFF_ALL}

\* The switch with conflicts only where all three files differ.
Conflict_OnlyAllDiffer(type) == type = DIFF_ALL /\ opt.flagging

\* Lines 1434-1440 and 1549-1557: the blocks written as conflicts.
Conflict(type) ==
    CASE type = DIFF_2ND -> TRUE
      [] type = DIFF_3RD -> FALSE
      [] type = DIFF_ALL -> opt.flagging
      [] OTHER -> FALSE

\* The label of the second file where all three differ and show_2nd is set,
\* and of the first file in every other conflict.
StartLabel_SecondIfShown(type, file0, file1) ==
    IF type = DIFF_ALL /\ opt.show_2nd THEN file1 ELSE file0

\* Lines 1474-1475: the label printed after "<<<<<<< ".
StartLabel(type, file0, file1) == IF type = DIFF_ALL THEN file0 ELSE file1

\* Lines 1442-1512: the commands for one block; [text, conflict].
EdBlock(b, mapping, rev_mapping, file0, file1, file2) ==
    LET type == mapped_type(b, rev_mapping)
        low0 == D_LOWLINE(b, mapping[FILE0])
        high0 == D_HIGHLINE(b, mapping[FILE0])
        dots1 == dotlines(b, mapping[FILE1])
        dots2 == dotlines(b, mapping[FILE2])
        end_dot == type = DIFF_ALL /\ ((opt.show_2nd /\ dots1.leading_dot)
                                       \/ dots2.leading_dot)
        end_of_conflict ==
            Dec(high0) \o <<97, NL>>
            \o (IF type = DIFF_ALL
                THEN (IF opt.show_2nd THEN OlderMarker \o file1 \o <<NL>> \o dots1.text
                      ELSE <<>>)
                     \o MiddleMarker \o dots2.text
                ELSE <<>>)
            \o YoursMarker \o file2 \o <<NL>>
            \o undotlines(end_dot, high0 + 2,
                          D_NUMLINES(b, mapping[FILE1]) + D_NUMLINES(b, mapping[FILE2]) + 1)
        start_of_conflict ==
            Dec(low0 - 1) \o <<97, NL>> \o MineMarker
            \o StartLabel(type, file0, file1) \o <<NL>>
            \o (IF type = DIFF_2ND THEN dots1.text \o MiddleMarker ELSE <<>>)
            \o undotlines(type = DIFF_2ND /\ dots1.leading_dot, low0 + 1,
                          D_NUMLINES(b, mapping[FILE1]))
    IN  IF SkipBlock(type) THEN [text |-> <<>>, conflict |-> FALSE]
        ELSE IF Conflict(type)
        THEN [text |-> end_of_conflict \o start_of_conflict, conflict |-> TRUE]
        ELSE IF D_NUMLINES(b, mapping[FILE2]) = 0
        THEN [text |-> (IF low0 = high0 THEN Dec(low0)
                        ELSE Dec(low0) \o <<44>> \o Dec(high0)) \o <<100, NL>>,
              conflict |-> FALSE]
        ELSE [text |-> (CASE high0 - low0 = -1 -> Dec(high0) \o <<97, NL>>
                          [] high0 - low0 = 0 -> Dec(high0) \o <<99, NL>>
                          [] OTHER -> Dec(low0) \o <<44>> \o Dec(high0) \o <<99, NL>>)
                       \o dots2.text
                       \o undotlines(dots2.leading_dot, low0, D_NUMLINES(b, mapping[FILE2])),
              conflict |-> FALSE]

RECURSIVE EdBlocks(_, _, _, _, _, _)
EdBlocks(blocks, mapping, rev_mapping, file0, file1, file2) ==
    IF blocks = <<>> THEN [text |-> <<>>, conflicts_found |-> FALSE]
    ELSE LET one == EdBlock(Head(blocks), mapping, rev_mapping, file0, file1, file2)
             rest == EdBlocks(Tail(blocks), mapping, rev_mapping, file0, file1, file2)
         IN  [text |-> one.text \o rest.text,
              conflicts_found |-> one.conflict \/ rest.conflicts_found]

\* [text, conflicts_found]
output_diff3_edscript(diff, mapping, rev_mapping, file0, file1, file2) ==
    LET r == EdBlocks(reverse_diff3_blocklist(diff), mapping, rev_mapping,
                      file0, file1, file2)
    IN  [text |-> r.text \o (IF opt.finalwrite THEN <<119, NL, 113, NL>> ELSE <<>>),
         conflicts_found |-> r.conflicts_found]

\* The bytes of a file of these lines.
RECURSIVE Flatten(_)
Flatten(lines) == IF lines = <<>> THEN <<>> ELSE Head(lines) \o Flatten(Tail(lines))

\* Lines 1562-1576: getc and putc until I0 lines are copied; [eof, text, rest].
\* The copying loop without its test for the end of the file.
RECURSIVE CopyLines_Unchecked(_, _)
CopyLines_Unchecked(infile, i0) ==
    IF i0 <= 0 THEN [eof |-> FALSE, text |-> <<>>, rest |-> infile]
    ELSE IF infile = <<>> THEN [eof |-> FALSE, text |-> <<>>, rest |-> <<>>]
    ELSE LET r == CopyLines_Unchecked(Tail(infile),
                                      IF Head(infile) = NL THEN i0 - 1 ELSE i0)
         IN  [r EXCEPT !.text = <<Head(infile)>> \o @]

\* Lines 1561-1576: getc and putc until I0 lines are copied; [eof, text, rest].
RECURSIVE CopyLines(_, _)
CopyLines(infile, i0) ==
    IF i0 <= 0 THEN [eof |-> FALSE, text |-> <<>>, rest |-> infile]
    ELSE IF infile = <<>> THEN [eof |-> TRUE, text |-> <<>>, rest |-> <<>>]
    ELSE LET r == CopyLines(Tail(infile), IF Head(infile) = NL THEN i0 - 1 ELSE i0)
         IN  [r EXCEPT !.text = <<Head(infile)>> \o @]

\* The loop skipping no line.
SkipLines_None(infile, i1) == [eof |-> FALSE, i1 |-> 0, rest |-> infile]

\* Lines 1620-1632: getc until I1 lines are skipped; [eof, i1, rest], i1 the
\* count the loop holds when it meets the end of the file.
RECURSIVE SkipLines(_, _)
SkipLines(infile, i1) ==
    IF i1 <= 0 THEN [eof |-> FALSE, i1 |-> i1, rest |-> infile]
    ELSE IF infile = <<>> THEN [eof |-> TRUE, i1 |-> i1 - 1, rest |-> <<>>]
    ELSE SkipLines(Tail(infile), IF Head(infile) = NL THEN i1 - 1 ELSE i1)

\* The text for block B without the lines of the second file.
MergeBlockText_NoSecondFile(b, type, mapping, file0, file1, file2) ==
    (IF Conflict(type)
     THEN (IF type = DIFF_ALL
           THEN MineMarker \o file0 \o <<NL>> \o WriteLines(b, mapping[FILE0], 0)
           ELSE <<>>)
          \o MiddleMarker
     ELSE <<>>)
    \o WriteLines(b, mapping[FILE2], 0)
    \o (IF Conflict(type) THEN YoursMarker \o file2 \o <<NL>> ELSE <<>>)

\* Lines 1578-1615: what is written for block B.
MergeBlockText(b, type, mapping, file0, file1, file2) ==
    (IF Conflict(type)
     THEN (IF type = DIFF_ALL
           THEN MineMarker \o file0 \o <<NL>> \o WriteLines(b, mapping[FILE0], 0)
           ELSE <<>>)
          \o (IF opt.show_2nd
              THEN (IF type = DIFF_ALL THEN OlderMarker ELSE MineMarker)
                   \o file1 \o <<NL>> \o WriteLines(b, mapping[FILE1], 0)
              ELSE <<>>)
          \o MiddleMarker
     ELSE <<>>)
    \o WriteLines(b, mapping[FILE2], 0)
    \o (IF Conflict(type) THEN YoursMarker \o file2 \o <<NL>> ELSE <<>>)

\* Lines 1538-1638 from block Head(diff) on; [fatal, text, conflicts_found].
RECURSIVE MergeBlocks(_, _, _, _, _, _)
MergeBlocks(infile, diff, linesread, mapping, rev_mapping, names) ==
    IF diff = <<>> THEN [fatal |-> FALSE, text |-> infile, conflicts_found |-> FALSE]
    ELSE LET b == Head(diff)
             type == mapped_type(b, rev_mapping)
             i0 == D_LOWLINE(b, FILE0) - linesread - 1
             copied == CopyLines(infile, i0)
             text == copied.text
                     \o MergeBlockText(b, type, mapping, names[1], names[2], names[3])
             i1 == D_NUMLINES(b, FILE0)
             skip == SkipLines(copied.rest, i1)
             rest == MergeBlocks(skip.rest, Tail(diff), linesread + i0 + i1,
                                 mapping, rev_mapping, names)
         IN  IF SkipBlock(type)
             THEN MergeBlocks(infile, Tail(diff), linesread, mapping, rev_mapping, names)
             ELSE IF copied.eof
             THEN [fatal |-> TRUE, text |-> copied.text, conflicts_found |-> FALSE]
             ELSE IF skip.eof
             THEN [fatal |-> skip.i1 # 0 \/ Tail(diff) # <<>>, text |-> text,
                   conflicts_found |-> Conflict(type)]
             ELSE [fatal |-> rest.fatal, text |-> text \o rest.text,
                   conflicts_found |-> Conflict(type) \/ rest.conflicts_found]

\* [fatal, text, conflicts_found]
output_diff3_merge(infile, diff, mapping, rev_mapping, file0, file1, file2) ==
    MergeBlocks(infile, diff, 0, mapping, rev_mapping, <<file0, file1, file2>>)

(***************************************************************************)
(* main: the output and the exit.                                          *)
(***************************************************************************)
\* Lines 394-397.
OutputEdscript ==
    /\ pc = "output"
    /\ opt.edscript
    /\ LET r == output_diff3_edscript(diff3, Mapping(common), RevMapping(common),
                                      tag_strings[1], tag_strings[2], tag_strings[3])
       IN  /\ out' = out \o r.text
           /\ conflicts_found' = r.conflicts_found
    /\ pc' = "check_stdout"
    /\ UNCHANGED <<argv, file, opt, diff_program, incompat, tag_strings, common, thread0, thread1, m,
                   diff3, disk, exit_status>>

\* The bytes a file begins with.
Beginnings(text) == {SubSeq(text, 1, n) : n \in 0..Len(text)}

\* Lines 398-406: file[rev_mapping[FILE0]] is opened anew and merged, the
\* bytes read from it one of INFILES.
OutputMergeOf(infiles) ==
    /\ pc = "output"
    /\ ~opt.edscript /\ opt.merge
    /\ \/ \* line 400: xfreopen failed
          /\ fatal
          /\ UNCHANGED <<out, conflicts_found, disk>>
       \/ \* a getc failed after the bytes READ: what was written until then
          \* stays written, and lines 1567, 1626 or 404-405 end the run
          \E infile \in infiles : \E read \in Beginnings(infile) :
            LET r == output_diff3_merge(read, diff3, Mapping(common),
                                        RevMapping(common),
                                        tag_strings[1], tag_strings[2], tag_strings[3])
            IN  /\ disk' = [disk EXCEPT ![STDIN] = read]
                /\ out' = out \o r.text
                /\ fatal
                /\ UNCHANGED conflicts_found
       \/ \E infile \in infiles :
            LET r == output_diff3_merge(infile, diff3, Mapping(common),
                                        RevMapping(common),
                                        tag_strings[1], tag_strings[2], tag_strings[3])
            IN  /\ disk' = [disk EXCEPT ![STDIN] = infile]
                /\ out' = out \o r.text
                /\ IF r.fatal
                   THEN fatal /\ UNCHANGED conflicts_found
                   ELSE /\ conflicts_found' = r.conflicts_found
                        /\ pc' = "check_stdout"
                        /\ UNCHANGED exit_status
    /\ UNCHANGED <<argv, file, opt, diff_program, incompat, tag_strings, common, thread0, thread1, m,
                   diff3>>

\* The merge of a MINE that is as the provider read it.
OutputMerge == OutputMergeOf({Flatten(disk[FILE0])})

\* Lines 407-411.
OutputDiff3 ==
    /\ pc = "output"
    /\ ~opt.edscript /\ ~opt.merge
    /\ LET r == output_diff3(diff3, Mapping(common), RevMapping(common))
       IN  /\ out' = out \o r.text
           /\ IF r.fatal THEN fatal
              ELSE pc' = "check_stdout" /\ UNCHANGED exit_status
    /\ conflicts_found' = FALSE
    /\ UNCHANGED <<argv, file, opt, diff_program, incompat, tag_strings, common, thread0, thread1, m,
                   diff3, disk>>

\* Lines 413-414: check_stdout (); exit (conflicts_found);
CheckStdout ==
    /\ pc = "check_stdout"
    /\ check_stdout(IF conflicts_found THEN 1 ELSE 0)
    /\ UNCHANGED <<argv, file, opt, diff_program, incompat, tag_strings, common, thread0, thread1, m,
                   diff3, out, disk, conflicts_found>>

Next ==
    \/ Getopt
    \/ CheckOptions
    \/ ChooseCommon
    \/ ProcessDiff(RunHunks)
    \/ M3Enter
    \/ M3Head
    \/ M3Shuffle
    \/ M3Build
    \/ OutputEdscript
    \/ OutputMerge
    \/ OutputDiff3
    \/ CheckStdout

Spec == Init /\ [][Next]_vars

\* The state in which main calls process_diff, for a run without options.
InitReconcile ==
    /\ pc = "diff1"
    /\ argv = <<>>
    /\ file = <<FileName(0), FileName(1), FileName(2)>>
    /\ opt = NoFlags
    /\ incompat = 0
    /\ diff_program = DEFAULT_DIFF_PROGRAM
    /\ tag_strings = file
    /\ common = 2
    /\ thread0 = <<>>
    /\ thread1 = <<>>
    /\ m = NoLocals
    /\ diff3 = <<>>
    /\ out = <<>>
    /\ disk = NoFiles
    /\ conflicts_found = FALSE
    /\ exit_status = -1

NextReconcile == ProcessDiff(MaxHunks) \/ M3Enter \/ M3Head \/ M3Shuffle \/ M3Build

SpecReconcile == InitReconcile /\ [][NextReconcile]_vars

(***************************************************************************)
(* The reconciler's contracts, checked under SpecReconcile.                *)
(***************************************************************************)
\* Successive hunks of a parsed chain leave a common line between them.
HunksSeparated(thread) ==
    \A k \in 1..(Len(thread) - 1) :
        D_LOWLINE(thread[k + 1], FC) >= D_HIGHLINE(thread[k], FC) + 2

\* Common line c lies in the common range of some hunk of either thread.
Touched(c) ==
    \E h \in {thread0[k] : k \in 1..Len(thread0)} \cup {thread1[k] : k \in 1..Len(thread1)} :
        D_LOWLINE(h, FC) <= c /\ c <= D_HIGHLINE(h, FC)

BlocksSeparated ==
    \A k \in 1..(Len(diff3) - 1) :
        /\ D_LOWLINE(diff3[k + 1], FILEC) >= D_HIGHLINE(diff3[k], FILEC) + 2
        /\ \A c \in (D_HIGHLINE(diff3[k], FILEC) + 1)..(D_LOWLINE(diff3[k + 1], FILEC) - 1) :
               ~Touched(c)

\* C1 as stated: whatever two chains in increasing, non-overlapping common
\* order are reconciled, successive three-way blocks leave an untouched common
\* line between them, lowC(next) >= highC(prev) + 2.
C1_AnyChains == BlocksSeparated

\* C1, amended: when the successive hunks of each chain leave a common line
\* between them, successive three-way blocks leave a common line between them
\* that no hunk of either thread touches.
C1_SeparatedChains ==
    (HunksSeparated(thread0) /\ HunksSeparated(thread1)) => BlocksSeparated

C1_Witness ==
    /\ pc = "output"
    /\ Len(diff3) >= 2
    /\ Len(thread0) >= 2
    /\ HunksSeparated(thread0) /\ HunksSeparated(thread1)

\* The block make_3way_diff has just appended, built from the lists m.using.
JustBuilt == pc = "sniff" /\ diff3 # <<>>

SameLines(b) ==
    /\ D_NUMLINES(b, FILE0) = D_NUMLINES(b, FILE1)
    /\ \A i \in 1..D_NUMLINES(b, FILE0) : b.lines[FILE0][i] = b.lines[FILE1][i]

\* C2: a block is DIFF_2ND iff no hunk of thread 0 was used, DIFF_1ST iff no
\* hunk of thread 1 was used, and with hunks of both DIFF_3RD iff the ranges of
\* files 0 and 1 have as many lines and the same lines, DIFF_ALL otherwise.
C2_Classified ==
    JustBuilt =>
        LET b == last_diff3
        IN  /\ (b.correspond = DIFF_2ND) <=> (m.using[0] = <<>>)
            /\ (b.correspond = DIFF_1ST) <=> (m.using[1] = <<>>)
            /\ (m.using[0] # <<>> /\ m.using[1] # <<>>) =>
                   /\ b.correspond \in {DIFF_3RD, DIFF_ALL}
                   /\ (b.correspond = DIFF_3RD) <=> SameLines(b)

C2_Witness ==
    /\ JustBuilt
    /\ last_diff3.correspond = DIFF_ALL
    /\ D_NUMLINES(last_diff3, FILE0) = D_NUMLINES(last_diff3, FILE1)
    /\ D_NUMLINES(last_diff3, FILE0) > 0

\* Thread 0 inserts before common line L and thread 1 has a hunk on line L.
InsertBeforeReplaced(L) ==
    /\ \E k \in 1..Len(thread0) :
           D_LOWLINE(thread0[k], FC) = L /\ D_HIGHLINE(thread0[k], FC) = L - 1
    /\ \E k \in 1..Len(thread1) :
           D_LOWLINE(thread1[k], FC) = L /\ D_HIGHLINE(thread1[k], FC) = L

\* The blocks that hold the insertion point before line L or line L itself.
BlocksAt(L) ==
    {k \in 1..Len(diff3) :
        D_LOWLINE(diff3[k], FILEC) <= L /\ L <= D_HIGHLINE(diff3[k], FILEC) + 1}

\* The test of the inner loop, as the claim words it.
AbsorbRule ==
    (pc = "shuffle") =>
        LET other == 1 - m.high_water_thread
            other_diff == m.current[other]
        IN  (m'.using[other] # m.using[other])
            <=> (/\ other_diff # <<>>
                 /\ D_LOWLINE(Head(other_diff), FC) <= m.high_water_mark + 1)

\* C3 as stated: an insertion of thread 0 before line L and a hunk of thread 1
\* on line L end in one block, and that block is DIFF_ALL.
C3_OneAllDiffer ==
    pc = "output" =>
        \A L \in 1..MaxC :
            InsertBeforeReplaced(L) =>
                /\ Cardinality(BlocksAt(L)) = 1
                /\ \A k \in BlocksAt(L) : diff3[k].correspond = DIFF_ALL

\* C3, amended: when the hunks of each chain leave a common line between them,
\* the insertion and the hunk on line L end in one block, built from both
\* threads, which is DIFF_ALL unless files 0 and 1 hold the same lines over it;
\* and a hunk of the other thread is absorbed iff its lowC <= high water mark + 1.
C3_OneBlock ==
    /\ [](pc = "output" /\ HunksSeparated(thread0) /\ HunksSeparated(thread1) =>
            \A L \in 1..MaxC :
                InsertBeforeReplaced(L) =>
                    /\ Cardinality(BlocksAt(L)) = 1
                    /\ \A k \in BlocksAt(L) :
                           /\ diff3[k].correspond \in {DIFF_ALL, DIFF_3RD}
                           /\ (diff3[k].correspond = DIFF_ALL) <=> ~SameLines(diff3[k]))
    /\ [][AbsorbRule]_vars

C3_Witness ==
    /\ pc = "output"
    /\ HunksSeparated(thread0) /\ HunksSeparated(thread1)
    /\ \E L \in 1..MaxC :
           /\ InsertBeforeReplaced(L)
           /\ \E k \in BlocksAt(L) : diff3[k].correspond = DIFF_ALL

\* A hunk of thread 0 and one of thread 1 in the lists hold unequal lines for
\* one common line.
CommonDisagrees(using) ==
    \E i \in 1..Len(using[0]), j \in 1..Len(using[1]) :
        LET h0 == using[0][i]
            h1 == using[1][j]
        IN  \E c \in D_LOWLINE(h0, FC)..D_HIGHLINE(h0, FC) :
                /\ D_LOWLINE(h1, FC) <= c /\ c <= D_HIGHLINE(h1, FC)
                /\ D_RELNUM(h0, FC, c - D_LOWLINE(h0, FC))
                       # D_RELNUM(h1, FC, c - D_LOWLINE(h1, FC))

\* C4: the run ends with status 2 when the hunks used for a block disagree on
\* a common line, and a block is produced only from hunks that agree on every
\* common line both threads cover.
C4_CrossCheck ==
    /\ (pc = "exit" /\ m # NoLocals) => (CommonDisagrees(m.using) /\ exit_status = EXIT_TROUBLE)
    /\ JustBuilt => ~CommonDisagrees(m.using)
    /\ (pc = "output" /\ exit_status = -1) => Len(diff3) <= Len(thread0) + Len(thread1)

C4_Witness ==
    /\ pc = "exit"
    /\ CommonDisagrees(m.using)
    /\ exit_status = EXIT_TROUBLE
    /\ diff3 # <<>>

(***************************************************************************)
(* The contracts of a whole run, checked under Spec.                       *)
(***************************************************************************)
\* The renderer has run to its end; what is left is check_stdout and exit.
Rendered == pc = "check_stdout"

MergeMode == ~opt.edscript /\ opt.merge

\* Both runs of the provider read the same common file.
SameCommonRead ==
    \/ disk[FILEC] = CommonFile
    \/ disk[FILEC] = [i \in 1..MaxC |-> IF CommonFile[i][1] = 98
                                        THEN <<46>> \o Tail(CommonFile[i])
                                        ELSE CommonFile[i]]

\* A conflict's opening marker is in the text.
HasMarker(text) ==
    \E i \in 1..(Len(text) - 7) : SubSeq(text, i, i + 7) = MineMarker

\* The ed script holds a command for some block.
EdEmitted == out # (IF opt.finalwrite THEN <<119, NL, 113, NL>> ELSE <<>>)

\* C5: in merge mode, when the hunk chain of YOURS against the common file is
\* empty, the output is MINE byte for byte and no conflict is found, whatever
\* the hunks of MINE are; the run then exits with status 0 unless writing
\* stdout fails.
C5_MergeKeepsMine ==
    /\ []((Rendered /\ MergeMode /\ thread1 = <<>>) =>
            (out = Flatten(disk[FILE0]) /\ ~conflicts_found))
    /\ [][(Rendered /\ MergeMode /\ thread1 = <<>> /\ pc' = "exit") =>
            exit_status' \in {EXIT_SUCCESS, EXIT_TROUBLE}]_vars

C5_Witness ==
    /\ Rendered /\ MergeMode
    /\ thread1 = <<>> /\ thread0 # <<>>
    /\ disk[FILE0] # CommonFile
    /\ out = Flatten(disk[FILE0])

\* MINE is the common file's text: its chain is empty and OLDER is the common
\* file.
MineIsOlder == common = 1 /\ thread0 = <<>> /\ SameCommonRead

\* C6 as stated: in merge mode, when the hunk chain of MINE against OLDER is
\* empty, the output is YOURS and no conflict is found.
C6_MergeGivesYours ==
    (Rendered /\ MergeMode /\ MineIsOlder) =>
        (out = Flatten(disk[FILE1]) /\ ~conflicts_found)

\* C6, amended: in merge mode, when the hunk chain of MINE against OLDER is
\* empty, no conflict is found and the output is YOURS unless overlap_only is
\* set (-x, -X), when it is MINE; the run then exits with status 0 unless
\* writing stdout fails.
C6_MergeGivesYoursUnlessOverlapOnly ==
    /\ []((Rendered /\ MergeMode /\ MineIsOlder) =>
            /\ ~conflicts_found
            /\ ~HasMarker(out)
            /\ out = Flatten(IF opt.overlap_only THEN disk[FILE0] ELSE disk[FILE1]))
    /\ [][(Rendered /\ MergeMode /\ MineIsOlder /\ pc' = "exit") =>
            exit_status' \in {EXIT_SUCCESS, EXIT_TROUBLE}]_vars

C6_Witness ==
    /\ Rendered /\ MergeMode /\ MineIsOlder
    /\ ~opt.overlap_only
    /\ thread1 # <<>>
    /\ disk[FILE1] # disk[FILE0]
    /\ out = Flatten(disk[FILE1])

\* -m with none of -AeExX3, OLDER the common file, and MINE and YOURS each
\* with the same one hunk against it.
IdenticalChange ==
    /\ opt.merge /\ incompat = 0
    /\ common = 1
    /\ Len(thread0) = 1
    /\ thread1 = thread0

\* C7 as stated: in default merge mode, when MINE and YOURS make the identical
\* change, there is one block, DIFF_3RD, the output is MINE and no conflict is
\* found.
C7_SameChangeKeepsMine ==
    (Rendered /\ IdenticalChange) =>
        /\ Len(diff3) = 1
        /\ diff3[1].correspond = DIFF_3RD
        /\ out = Flatten(disk[FILE0])
        /\ ~conflicts_found

\* What -m alone writes for the DIFF_3RD block B: MINE up to the block, OLDER's
\* lines and YOURS's lines between the markers, and MINE after the block.
BracketedSameChange(b) ==
    Flatten(SubSeq(disk[FILE0], 1, D_LOWLINE(b, FILE0) - 1))
    \o MineMarker \o tag_strings[2] \o <<NL>> \o Flatten(D_LINEARRAY(b, FILEC))
    \o MiddleMarker \o Flatten(D_LINEARRAY(b, FILE1))
    \o YoursMarker \o tag_strings[3] \o <<NL>>
    \o Flatten(SubSeq(disk[FILE0], D_HIGHLINE(b, FILE0) + 1, Len(disk[FILE0])))

\* C7, amended: in default merge mode, when MINE and YOURS make the identical
\* change, there is one block, DIFF_3RD, and it is written as a conflict:
\* OLDER's lines after "<<<<<<< " and OLDER's label, "=======", the changed
\* lines, ">>>>>>> " and YOURS's label; the run then exits with status 1
\* unless writing stdout fails.
C7_SameChangeIsBracketed ==
    /\ []((Rendered /\ IdenticalChange) =>
            /\ Len(diff3) = 1
            /\ diff3[1].correspond = DIFF_3RD
            /\ conflicts_found
            /\ out = BracketedSameChange(diff3[1]))
    /\ [][(Rendered /\ IdenticalChange /\ pc' = "exit") =>
            exit_status' \in {1, EXIT_TROUBLE}]_vars

C7_Witness ==
    /\ Rendered /\ IdenticalChange
    /\ disk[FILE0] # CommonFile
    /\ disk[FILE1] = disk[FILE0]
    /\ conflicts_found
    /\ out # Flatten(disk[FILE0])

\* C8: the exit status is 0, 1 or 2 and nothing else: after the renderer it is
\* 1 when a conflict was found (the output then holds a conflict marker) and 0
\* when none was, or 2 when writing stdout fails; --version and --help end
\* with 0, or 2 when writing stdout fails; every other end of the run (bad
\* options, trouble of the provider, a diff that does not parse, a block that
\* cannot be built, a failed read) has status 2.
C8_ExitStatus ==
    /\ [](/\ exit_status \in {-1, EXIT_SUCCESS, 1, EXIT_TROUBLE}
          /\ (pc = "exit") <=> (exit_status # -1)
          /\ Rendered => (conflicts_found <=> HasMarker(out)))
    /\ [][(pc # "exit" /\ pc' = "exit") =>
            IF Rendered
            THEN exit_status' \in {IF conflicts_found THEN 1 ELSE EXIT_SUCCESS, EXIT_TROUBLE}
            ELSE IF pc = "getopt" /\ argv # <<>> /\ Head(argv) \in {"v", "help"}
            THEN exit_status' \in {EXIT_SUCCESS, EXIT_TROUBLE}
            ELSE exit_status' = EXIT_TROUBLE]_vars

C8_Witness ==
    /\ pc = "exit"
    /\ exit_status = 1
    /\ conflicts_found
    /\ HasMarker(out)

\* -X was given.
OptionXGiven == (incompat \div Pow2(OPTION_X)) % 2 = 1

\* C9: with -X, a run that renders a DIFF_ALL block brackets it and finds a
\* conflict, in editor-script and in merge mode.
C9_XBracketsConflicts ==
    (Rendered /\ OptionXGiven /\ \E k \in 1..Len(diff3) : diff3[k].correspond = DIFF_ALL) =>
        (conflicts_found /\ HasMarker(out))

\* Editor-script mode, OLDER the common file, and one block.
EdOneBlock == Rendered /\ opt.edscript /\ common = 1 /\ Len(diff3) = 1

\* C10 as stated: in editor-script mode, a block only thread 1 (YOURS)
\* contributed to is emitted only if show_2nd is set, and as a conflict.
C10_OnlyYoursNeedsShow2nd ==
    (EdOneBlock /\ diff3[1].correspond = DIFF_2ND /\ EdEmitted) =>
        (opt.show_2nd /\ conflicts_found)

\* C10, amended: in editor-script mode with OLDER the common file, a block
\* only thread 1 (YOURS) contributed to is emitted iff overlap_only is unset,
\* and never as a conflict; it is the block in which MINE and YOURS agree
\* against OLDER (DIFF_3RD) that is emitted iff show_2nd is set, and then as a
\* conflict.
C10_OnlyYoursUnlessOverlapOnly ==
    /\ (EdOneBlock /\ diff3[1].correspond = DIFF_2ND) =>
           /\ EdEmitted <=> ~opt.overlap_only
           /\ ~conflicts_found
           /\ ~HasMarker(out)
    /\ (EdOneBlock /\ diff3[1].correspond = DIFF_3RD) =>
           /\ EdEmitted <=> opt.show_2nd
           /\ conflicts_found <=> opt.show_2nd

C10_Witness ==
    /\ EdOneBlock
    /\ diff3[1].correspond = DIFF_2ND
    /\ opt.show_2nd
    /\ EdEmitted
    /\ ~conflicts_found

\* The blocks other than those in which only file 0 (MINE) differs.
NotOnlyFirst(blocks) == SelectSeq(blocks, LAMBDA b : b.correspond # DIFF_1ST)

\* C11 as stated: in editor-script mode, a block only thread 0 (MINE)
\* contributed to is emitted iff overlap_only is unset, and never as a conflict.
C11_OnlyMineUnlessOverlapOnly ==
    (EdOneBlock /\ diff3[1].correspond = DIFF_1ST) =>
        /\ EdEmitted <=> ~opt.overlap_only
        /\ ~conflicts_found

\* C11, amended: in editor-script mode, a block only thread 0 (MINE)
\* contributed to is skipped under every setting of the flags and is never a
\* conflict: the script and the conflict result are those of the chain
\* without such blocks, and the script of a chain of such blocks alone holds
\* no command.
C11_OnlyMineNeverEmitted ==
    (Rendered /\ opt.edscript) =>
        LET r == output_diff3_edscript(NotOnlyFirst(diff3), Mapping(common),
                                       RevMapping(common),
                                       tag_strings[1], tag_strings[2], tag_strings[3])
        IN  /\ out = r.text
            /\ conflicts_found = r.conflicts_found
            /\ (NotOnlyFirst(diff3) = <<>>) => (~EdEmitted /\ ~conflicts_found)

C11_Witness ==
    /\ EdOneBlock
    /\ diff3[1].correspond = DIFF_1ST
    /\ ~opt.overlap_only
    /\ disk[FILE0] # CommonFile
    /\ ~EdEmitted

\* C12 as stated: in editor-script mode, the block in which MINE and YOURS
\* agree against OLDER (DIFF_3RD) gives no command and no conflict, whatever
\* the flags.
C12_SameChangeSkipped ==
    (EdOneBlock /\ diff3[1].correspond = DIFF_3RD) =>
        (~EdEmitted /\ ~conflicts_found)

\* The commands -A writes for the DIFF_3RD block B.
BracketingCommands(b) ==
    Dec(D_HIGHLINE(b, FILE0)) \o <<97, NL>>
    \o YoursMarker \o tag_strings[3] \o <<NL>> \o <<46, NL>>
    \o Dec(D_LOWLINE(b, FILE0) - 1) \o <<97, NL>>
    \o MineMarker \o tag_strings[2] \o <<NL>> \o Flatten(D_LINEARRAY(b, FILEC))
    \o MiddleMarker \o <<46, NL>>

\* C12, amended: in editor-script mode with OLDER the common file, the block
\* in which MINE and YOURS agree against OLDER (DIFF_3RD) is skipped iff
\* show_2nd is unset; with show_2nd (-A) it is a conflict: ">>>>>>> " and
\* YOURS's label are appended after MINE's lines, and "<<<<<<< " with OLDER's
\* label, OLDER's lines and "=======" are put before them.
C12_SameChangeNeedsShow2nd ==
    (EdOneBlock /\ diff3[1].correspond = DIFF_3RD) =>
        IF opt.show_2nd
        THEN /\ conflicts_found
             /\ out = BracketingCommands(diff3[1])
                       \o (IF opt.finalwrite THEN <<119, NL, 113, NL>> ELSE <<>>)
        ELSE ~EdEmitted /\ ~conflicts_found

C12_Witness ==
    /\ EdOneBlock
    /\ diff3[1].correspond = DIFF_3RD
    /\ opt.show_2nd
    /\ conflicts_found
    /\ HasMarker(out)

\* One block, in which all three files differ.
OneAllDiffer == Len(diff3) = 1 /\ diff3[1].correspond = DIFF_ALL

\* MINE with TEXT in the place of its lines of block B.
AroundBlock(b, text) ==
    Flatten(SubSeq(disk[FILE0], 1, D_LOWLINE(b, FILE0) - 1))
    \o text
    \o Flatten(SubSeq(disk[FILE0], D_HIGHLINE(b, FILE0) + 1, Len(disk[FILE0])))

\* The three files' lines of block B between the markers of a conflict.
BracketedAllDiffer(b) ==
    MineMarker \o tag_strings[1] \o <<NL>> \o Flatten(D_LINEARRAY(b, FILE0))
    \o (IF opt.show_2nd
        THEN OlderMarker \o tag_strings[2] \o <<NL>>
             \o Flatten(D_LINEARRAY(b, Mapping(common)[FILE1]))
        ELSE <<>>)
    \o MiddleMarker \o Flatten(D_LINEARRAY(b, Mapping(common)[FILE2]))
    \o YoursMarker \o tag_strings[3] \o <<NL>>

\* C13: in editor-script and merge modes, a DIFF_ALL block is skipped iff
\* simple_only is set, and when emitted it is a conflict iff flagging is set:
\* bracketed by the markers with flagging, and otherwise replaced by the lines
\* of YOURS; and with flagging and show_2nd both unset (-e, -3, -x) no
\* conflict is found, no marker is written and the exit status is never 1.
C13_AllDifferByFlags ==
    /\ (Rendered /\ opt.edscript /\ OneAllDiffer) =>
           /\ EdEmitted <=> ~opt.simple_only
           /\ conflicts_found <=> (~opt.simple_only /\ opt.flagging)
           /\ HasMarker(out) <=> conflicts_found
    /\ (Rendered /\ MergeMode /\ OneAllDiffer) =>
           /\ conflicts_found <=> (~opt.simple_only /\ opt.flagging)
           /\ out = IF opt.simple_only THEN Flatten(disk[FILE0])
                    ELSE AroundBlock(diff3[1],
                             IF opt.flagging THEN BracketedAllDiffer(diff3[1])
                             ELSE Flatten(D_LINEARRAY(diff3[1], Mapping(common)[FILE2])))
    /\ (~opt.flagging /\ ~opt.show_2nd) =>
           /\ ~conflicts_found
           /\ ~HasMarker(out)
           /\ exit_status # 1

C13_Witness ==
    /\ Rendered /\ MergeMode /\ OneAllDiffer
    /\ ~opt.simple_only /\ ~opt.flagging
    /\ out # Flatten(disk[FILE0])
    /\ ~conflicts_found

\* The bytes of TEXT from position I up to the end of the line.
RECURSIVE RestOfLine(_, _)
RestOfLine(text, i) ==
    IF i > Len(text) \/ text[i] = NL THEN <<>>
    ELSE <<text[i]>> \o RestOfLine(text, i + 1)

\* What follows the first "<<<<<<< " of TEXT on its line.
OpeningLabel(text) ==
    LET at == CHOOSE i \in 1..(Len(text) - 7) :
                  /\ SubSeq(text, i, i + 7) = MineMarker
                  /\ \A j \in 1..(i - 1) : SubSeq(text, j, j + 7) # MineMarker
    IN  RestOfLine(text, at + 8)

\* An editor script for one block, written as a conflict.
EdOneConflict == Rendered /\ opt.edscript /\ Len(diff3) = 1 /\ conflicts_found

\* C14 as stated: the label after "<<<<<<< " in an editor-script conflict is
\* OLDER's when the block is DIFF_ALL and show_2nd is set, and MINE's in every
\* other conflict.
C14_OlderLabelIfAllDifferShown ==
    EdOneConflict =>
        OpeningLabel(out) = IF diff3[1].correspond = DIFF_ALL /\ opt.show_2nd
                            THEN tag_strings[2] ELSE tag_strings[1]

\* C14, amended: the label after "<<<<<<< " in an editor-script conflict is
\* MINE's when the block is DIFF_ALL, with or without show_2nd, and OLDER's in
\* the other conflict there is, the block in which OLDER is the odd file (type
\* DIFF_2ND, written only with show_2nd); with show_2nd a DIFF_ALL conflict
\* has OLDER's label after "||||||| ".
C14_MineLabelIfAllDiffer ==
    EdOneConflict =>
        LET type == mapped_type(diff3[1], RevMapping(common))
        IN  /\ type \in {DIFF_ALL, DIFF_2ND}
            /\ (type = DIFF_2ND) => opt.show_2nd
            /\ OpeningLabel(out) = IF type = DIFF_ALL THEN tag_strings[1]
                                   ELSE tag_strings[2]
            /\ (type = DIFF_ALL /\ opt.show_2nd) =>
                   \E i \in 1..(Len(out) - 7) :
                       /\ SubSeq(out, i, i + 7) = OlderMarker
                       /\ RestOfLine(out, i + 8) = tag_strings[2]

C14_Witness ==
    /\ EdOneConflict
    /\ diff3[1].correspond = DIFF_ALL
    /\ opt.show_2nd
    /\ tag_strings[1] # tag_strings[2]
    /\ OpeningLabel(out) = tag_strings[1]

(***************************************************************************)
(* ed, as far as it runs the scripts of output_diff3_edscript: the         *)
(* commands a, c, d and s/^\.// with one or two line numbers, w and q.      *)
(***************************************************************************)
\* The lines of TEXT, each with its newline.
RECURSIVE SplitLines(_)
SplitLines(text) ==
    IF text = <<>> THEN <<>>
    ELSE LET n == CHOOSE i \in 1..Len(text) :
                      text[i] = NL /\ \A j \in 1..(i - 1) : text[j] # NL
         IN  <<SubSeq(text, 1, n)>> \o SplitLines(SubSeq(text, n + 1, Len(text)))

\* The number written at position I of LINE; [val, next].
RECURSIVE EdNumber(_, _, _)
EdNumber(line, i, val) ==
    IF i <= Len(line) /\ line[i] \in 48..57
    THEN EdNumber(line, i + 1, 10 * val + (line[i] - 48))
    ELSE [val |-> val, next |-> i]

\* What ed leaves of a buffer when a command fails.
EdError == <<<<63, NL>>>>

\* The buffer with the leading dot taken off its lines LO..HI.
RECURSIVE EdUndot(_, _, _, _)
EdUndot(buf, i, lo, hi) ==
    IF i > Len(buf) THEN <<>>
    ELSE <<IF lo <= i /\ i <= hi /\ buf[i][1] = 46 THEN Tail(buf[i]) ELSE buf[i]>>
         \o EdUndot(buf, i + 1, lo, hi)

\* The buffer after ed has run the command lines CMDS on BUF.
RECURSIVE EdRun(_, _)
EdRun(cmds, buf) ==
    IF cmds = <<>> \/ buf = EdError THEN buf
    ELSE LET c == Head(cmds)
             rest == Tail(cmds)
             first == EdNumber(c, 1, 0)
             second == IF c[first.next] = 44 THEN EdNumber(c, first.next + 1, 0)
                       ELSE first
             letter == c[second.next]
             lo == first.val
             hi == second.val
             dot == CHOOSE k \in 1..(Len(rest) + 1) :
                        /\ k <= Len(rest) => rest[k] = <<46, NL>>
                        /\ \A j \in 1..(k - 1) : rest[j] # <<46, NL>>
             text == SubSeq(rest, 1, dot - 1)
             after == SubSeq(rest, dot + 1, Len(rest))
             before_lo == SubSeq(buf, 1, lo - 1)
             after_hi == SubSeq(buf, hi + 1, Len(buf))
         IN  CASE letter = 97 ->
                    IF lo > Len(buf) \/ dot > Len(rest) THEN EdError
                    ELSE EdRun(after, SubSeq(buf, 1, lo) \o text
                                      \o SubSeq(buf, lo + 1, Len(buf)))
               [] letter = 99 ->
                    IF lo < 1 \/ lo > hi \/ hi > Len(buf) \/ dot > Len(rest) THEN EdError
                    ELSE EdRun(after, before_lo \o text \o after_hi)
               [] letter = 100 ->
                    IF lo < 1 \/ lo > hi \/ hi > Len(buf) THEN EdError
                    ELSE EdRun(rest, before_lo \o after_hi)
               [] letter = 115 ->
                    IF lo < 1 \/ lo > hi \/ hi > Len(buf) THEN EdError
                    ELSE EdRun(rest, EdUndot(buf, 1, lo, hi))
               [] letter \in {119, 113} -> EdRun(rest, buf)
               [] OTHER -> EdError

\* C15: for the same chain of blocks, flags and labels, and input files that
\* stay as they are while the two pairwise diffs are made, what
\* output_diff3_merge writes from MINE is the text ed makes of MINE when it
\* runs the script output_diff3_edscript writes, and the two return the same
\* conflicts_found; out is the one or the other.
C15_MergeIsEdOnMine ==
    (Rendered /\ (opt.edscript \/ opt.merge) /\ SameCommonRead) =>
        LET ed == output_diff3_edscript(diff3, Mapping(common), RevMapping(common),
                                        tag_strings[1], tag_strings[2], tag_strings[3])
            mg == output_diff3_merge(Flatten(disk[FILE0]), diff3, Mapping(common),
                                     RevMapping(common),
                                     tag_strings[1], tag_strings[2], tag_strings[3])
        IN  /\ ~mg.fatal
            /\ Flatten(EdRun(SplitLines(ed.text), disk[FILE0])) = mg.text
            /\ ed.conflicts_found = mg.conflicts_found
            /\ out = IF opt.edscript THEN ed.text ELSE mg.text
            /\ conflicts_found = mg.conflicts_found

C15_Witness ==
    /\ Rendered /\ MergeMode /\ SameCommonRead
    /\ OneAllDiffer
    /\ opt.show_2nd
    /\ conflicts_found
    /\ out = Flatten(EdRun(SplitLines(
                 output_diff3_edscript(diff3, Mapping(common), RevMapping(common),
                     tag_strings[1], tag_strings[2], tag_strings[3]).text),
                 disk[FILE0]))

\* MINE from line FROM on, with what is written for each block of BLOCKS the
\* flags do not leave out in the place of the block's lines of MINE.
RECURSIVE MineWithBlocks(_, _)
MineWithBlocks(blocks, from) ==
    IF blocks = <<>> THEN Flatten(SubSeq(disk[FILE0], from, Len(disk[FILE0])))
    ELSE LET b == Head(blocks)
             type == mapped_type(b, RevMapping(common))
         IN  IF SkipBlock(type) THEN MineWithBlocks(Tail(blocks), from)
             ELSE Flatten(SubSeq(disk[FILE0], from, D_LOWLINE(b, FILE0) - 1))
                  \o MergeBlockText(b, type, Mapping(common),
                                    tag_strings[1], tag_strings[2], tag_strings[3])
                  \o MineWithBlocks(Tail(blocks), D_HIGHLINE(b, FILE0) + 1)

\* The blocks the flags do not leave out.
EmittedBlocks ==
    {k \in 1..Len(diff3) : ~SkipBlock(mapped_type(diff3[k], RevMapping(common)))}

\* C16: in merge mode, the lines of MINE outside the ranges the emitted blocks
\* have in MINE are written once each, unchanged and in their order, the lines
\* of MINE in blocks the flags leave out among them, and the text of an
\* emitted block stands where its lines of MINE were; with no block emitted
\* the output is MINE.
C16_MergeFrame ==
    (Rendered /\ MergeMode) =>
        /\ out = MineWithBlocks(diff3, 1)
        /\ (EmittedBlocks = {}) => out = Flatten(disk[FILE0])

C16_Witness ==
    /\ Rendered /\ MergeMode
    /\ Len(diff3) = 2
    /\ Cardinality(EmittedBlocks) = 1
    /\ \A k \in 1..2 : D_NUMLINES(diff3[k], FILE0) > 0
    /\ out # Flatten(disk[FILE0])

\* Descriptive report mode.
ReportMode == ~opt.edscript /\ ~opt.merge

\* The file numbers of the lines "k:..." of a report, in their order.
RECURSIVE HeaderFilesOf(_)
HeaderFilesOf(lines) ==
    IF lines = <<>> THEN <<>>
    ELSE (IF Len(Head(lines)) >= 2 /\ Head(lines)[1] \in 49..51 /\ Head(lines)[2] = 58
          THEN <<Head(lines)[1] - 48>> ELSE <<>>)
         \o HeaderFilesOf(Tail(lines))

HeaderFiles(text) == HeaderFilesOf(SplitLines(text))

\* The odd file of block B in terms of the argument list, from 0; 3 for none.
OddInArgs(b) ==
    IF b.correspond = DIFF_ALL THEN 3 ELSE RevMapping(common)[OddFile(b.correspond)]

\* C17 as stated: in report mode, the files of a block are printed in the
\* order 1, 3, 2 exactly when the block is DIFF_3RD, and in the order 1, 2, 3
\* otherwise.
C17_SkewedIffSameAsCommon3rd ==
    (Rendered /\ ReportMode) =>
        /\ Len(HeaderFiles(out)) = 3 * Len(diff3)
        /\ \A k \in 1..Len(diff3) :
               SubSeq(HeaderFiles(out), 3 * k - 2, 3 * k)
                   = IF diff3[k].correspond = DIFF_3RD THEN <<1, 3, 2>> ELSE <<1, 2, 3>>

\* C17, amended: in report mode, the files of a block are printed in the
\* order 1, 3, 2 exactly when the odd file is the second of the argument list
\* (OLDER), files 1 and 3 then holding the same lines, and in the order
\* 1, 2, 3 otherwise; that block is the one only thread 1 contributed to
\* (DIFF_2ND) when file 3 is the common file, as it is unless it is "-", and
\* the DIFF_3RD block only when file 2 is the common file.
C17_SkewedIffSecondIsOdd ==
    (Rendered /\ ReportMode) =>
        /\ Len(HeaderFiles(out)) = 3 * Len(diff3)
        /\ \A k \in 1..Len(diff3) :
               LET b == diff3[k]
               IN  /\ SubSeq(HeaderFiles(out), 3 * k - 2, 3 * k)
                         = IF OddInArgs(b) = 1 THEN <<1, 3, 2>> ELSE <<1, 2, 3>>
                   /\ (OddInArgs(b) = 1) =>
                         D_LINEARRAY(b, Mapping(common)[FILE0])
                             = D_LINEARRAY(b, Mapping(common)[FILE2])
                   /\ (OddInArgs(b) = 1) <=>
                         (b.correspond = IF common = 2 THEN DIFF_2ND ELSE DIFF_3RD)

C17_Witness ==
    /\ Rendered /\ ReportMode
    /\ common = 2
    /\ Len(diff3) = 2
    /\ diff3[1].correspond = DIFF_2ND
    /\ HeaderFiles(out) = <<1, 3, 2, 1, 2, 3>>

\* The parts "k:..." of a report, each with the lines printed under it,
\* without the line_prefix before them; ACC holds the parts met so far.
RECURSIVE SectionsOf(_, _)
SectionsOf(lines, acc) ==
    IF lines = <<>> THEN acc
    ELSE LET l == Head(lines)
         IN  IF Len(l) >= 2 /\ l[1] \in 49..51 /\ l[2] = 58
             THEN SectionsOf(Tail(lines), Append(acc, [file |-> l[1] - 49, lines |-> <<>>]))
             ELSE IF /\ Len(l) >= Len(line_prefix)
                     /\ SubSeq(l, 1, Len(line_prefix)) = line_prefix
                     /\ acc # <<>>
             THEN SectionsOf(Tail(lines),
                             Append(SubSeq(acc, 1, Len(acc) - 1),
                                    [file |-> acc[Len(acc)].file,
                                     lines |-> Append(acc[Len(acc)].lines,
                                                      SubSeq(l, Len(line_prefix) + 1,
                                                             Len(l)))]))
             ELSE SectionsOf(Tail(lines), acc)

Sections(text) == SectionsOf(SplitLines(text), <<>>)

\* What the report prints under the header of file I of block K.
PrintedLines(k, i) ==
    LET part == CHOOSE j \in (3 * k - 2)..(3 * k) : Sections(out)[j].file = i
    IN  Sections(out)[part].lines

\* C18 as stated: in report mode, a block with one odd file has the lines of
\* one file left out, file 2 when the odd file is file 1 and the odd file
\* otherwise; the other files' lines are printed, as are all the lines of a
\* DIFF_ALL block.
C18_OddFileElided ==
    (Rendered /\ ReportMode) =>
        /\ Len(Sections(out)) = 3 * Len(diff3)
        /\ \A k \in 1..Len(diff3) : \A i \in 0..2 :
               LET b == diff3[k]
                   odd == OddInArgs(b)
                   elided == IF odd = 3 THEN 3 ELSE IF odd = 0 THEN 1 ELSE odd
               IN  PrintedLines(k, i) = IF i = elided THEN <<>>
                                        ELSE D_LINEARRAY(b, Mapping(common)[i])

\* C18, amended: in report mode, a block with one odd file has the lines of
\* one file left out, file 2 when the odd file is file 1 and file 1 otherwise:
\* the first of the two files that hold the same lines; the lines of the odd
\* file and of the other one are printed, as are all the lines of a DIFF_ALL
\* block, and a file with no line in the block has its header alone.
C18_FirstOfEqualPairElided ==
    (Rendered /\ ReportMode) =>
        /\ Len(Sections(out)) = 3 * Len(diff3)
        /\ \A k \in 1..Len(diff3) : \A i \in 0..2 :
               LET b == diff3[k]
                   odd == OddInArgs(b)
                   elided == IF odd = 3 THEN 3 ELSE IF odd = 0 THEN 1 ELSE 0
                   twin == CHOOSE j \in 0..2 : j # i /\ j # odd
               IN  /\ PrintedLines(k, i) = IF i = elided THEN <<>>
                                            ELSE D_LINEARRAY(b, Mapping(common)[i])
                   /\ (i = elided) =>
                          /\ i # odd
                          /\ D_LINEARRAY(b, Mapping(common)[i])
                                 = D_LINEARRAY(b, Mapping(common)[twin])

C18_Witness ==
    /\ Rendered /\ ReportMode
    /\ Len(diff3) = 1
    /\ OddInArgs(diff3[1]) = 2
    /\ \A i \in 0..2 : D_NUMLINES(diff3[1], i) > 0
    /\ PrintedLines(1, 0) = <<>>
    /\ PrintedLines(1, 2) # <<>>

\* The operands that are "-".
DashOperands == {i \in 1..Len(file) : file[i] = Dash}

\* C19: with "-" for more than one of the three operands no diff is made, in
\* any mode and whichever the operands are, and the run ends with status 2
\* (unless it ends in printing the version or the usage).
C19_TwoDashesRejected ==
    (Len(file) = 3 /\ Cardinality(DashOperands) > 1) =>
        /\ pc \in {"getopt", "common", "exit"}
        /\ (pc = "exit" /\ out = <<>>) => exit_status = EXIT_TROUBLE

\* The options among -AeExX3 seen.
BitsSet(set) == {b \in 0..5 : (set \div Pow2(b)) % 2 = 1}

\* -L was given: tag_strings holds labels, not yet the names of the files.
LabelsGiven == tag_strings # <<>> /\ tag_strings[1] = Label(0)

\* The options seen are two of -AeExX3, or -i and -m, or a label without
\* flagging, whatever the options still to come are.
IncompatibleOptions ==
    \/ Cardinality(BitsSet(incompat)) > 1
    \/ (opt.finalwrite /\ opt.merge)
    \/ /\ LabelsGiven
       /\ ~(opt.flagging \/ (opt.merge /\ incompat = 0))
       /\ \A i \in 1..Len(argv) : argv[i] \notin {"A", "E", "m"}

\* C20 as stated: an incompatible combination of options ends the run with
\* status 2, nothing written and no diff made.
C20_IncompatibleAborts ==
    IncompatibleOptions =>
        /\ pc \in {"getopt", "exit"}
        /\ out = <<>>
        /\ (pc = "exit") => exit_status = EXIT_TROUBLE

\* -m with no option among -AeExX3 other than -A.
MergeAlone == opt.merge /\ incompat \in {0, Pow2(OPTION_A)}

\* C20, amended: when the options have all been read (none of them asked for
\* the version or the usage, which are printed as soon as they are met, or was
\* invalid), an incompatible combination ends the run with status 2, nothing
\* written and no diff made; one option among -AeExX3, or -m alone, with
\* three operands is accepted, and -m alone sets the flags -m -A sets.  A run
\* that ends with an incompatible combination seen has status 2, or has
\* printed the version or the usage.
C20_IncompatibleAbortsAfterOptions ==
    /\ [][(pc = "getopt" /\ argv = <<>>) =>
            IF IncompatibleOptions
            THEN /\ pc' = "exit" /\ exit_status' = EXIT_TROUBLE
                 /\ out = <<>> /\ out' = <<>>
                 /\ thread0' = <<>> /\ thread1' = <<>>
            ELSE /\ (Len(file) = 3) => pc' = "common"
                 /\ MergeAlone =>
                        opt' = [NoFlags EXCEPT !.merge = TRUE, !.show_2nd = TRUE,
                                               !.flagging = TRUE,
                                               !.text = opt.text,
                                               !.strip_trailing_cr = opt.strip_trailing_cr,
                                               !.initial_tab = opt.initial_tab]]_vars
    /\ [](IncompatibleOptions =>
            /\ pc \in {"getopt", "exit"}
            /\ thread0 = <<>> /\ thread1 = <<>>
            /\ (pc = "exit") =>
                   \/ exit_status = EXIT_TROUBLE /\ out = <<>>
                   \/ out \in {VersionText, UsageText})

C20_Witness ==
    /\ pc = "exit"
    /\ argv = <<>>
    /\ Cardinality(BitsSet(incompat)) = 2
    /\ Len(file) = 3
    /\ exit_status = EXIT_TROUBLE
    /\ out = <<>>

(***************************************************************************)
(* Files without a newline at their end.  The provider's runs of a diff3   *)
(* without options, of diff3 -e and of diff3 -m, on files whose last line  *)
(* may lack its newline.                                                   *)
(***************************************************************************)
Ended(lines) == lines = <<>> \/ LastOf(lines)[Len(LastOf(lines))] = NL

Unended(lines) ==
    IF ~Ended(lines) \/ lines = <<>> THEN lines
    ELSE SubSeq(lines, 1, Len(lines) - 1)
         \o <<SubSeq(LastOf(lines), 1, Len(LastOf(lines)) - 1)>>

\* The edits of CHAIN, the last one with an unended last new line.
UnendedChain(chain) ==
    SubSeq(chain, 1, Len(chain) - 1)
    \o <<[LastOf(chain) EXCEPT !.new = Unended(@)]>>

\* Whether a pair of files, the other one ending in a newline iff ENDO and the
\* common one iff ENDC, can differ by CHAIN: a last line without newline
\* differs from every line with one, and so is in the last hunk unless it is
\* the last line of both files.
EndsAgree(chain, endO, endC) ==
    IF chain = <<>> \/ LastOf(chain).highC # MaxC
    THEN endO = endC
    ELSE /\ (LastOf(chain).new = <<>> => endO)
         /\ (LastOf(chain).highC = LastOf(chain).lowC - 1 => endC)

InitUnended ==
    /\ pc = "diff1"
    /\ argv = <<>>
    /\ file = <<FileName(0), FileName(1), FileName(2)>>
    /\ incompat \in {0, Pow2(OPTION_e)}
    /\ diff_program = DEFAULT_DIFF_PROGRAM
    /\ opt \in {ImpliedFlags([NoFlags EXCEPT !.merge = mg], incompat) :
                   mg \in BOOLEAN}
    /\ tag_strings = file
    /\ common = IF opt.edscript \/ opt.merge THEN 1 ELSE 2
    /\ thread0 = <<>>
    /\ thread1 = <<>>
    /\ m = NoLocals
    /\ diff3 = <<>>
    /\ out = <<>>
    /\ disk = NoFiles
    /\ conflicts_found = FALSE
    /\ exit_status = -1

\* Lines 379-382 on such files: both runs of the provider read the same common
\* file.
ProcessDiffUnended ==
    /\ pc \in {"diff1", "diff0"}
    /\ \E chain \in EditChains(RunHunks) : \E endO, endC \in BOOLEAN :
          /\ pc = "diff0" => endC = Ended(disk[FILEC])
          /\ EndsAgree(chain, endO, endC)
          /\ LET view == IF endC THEN CommonFile ELSE Unended(CommonFile)
                 edits == IF ~endO /\ chain # <<>> /\ LastOf(chain).highC = MaxC
                          THEN UnendedChain(chain) ELSE chain
             IN  ProcessEntries(DiffOutput(edits, 0, view),
                                ApplyEdits(edits, view, 1), view)
    /\ UNCHANGED <<argv, file, opt, diff_program, incompat, tag_strings, common, m, diff3, out,
                   conflicts_found>>

SpecUnended == InitUnended /\ [][ProcessDiffUnended]_vars

\* The hunks of thread 1 are parsed.
Thread1Read == pc \in {"diff0", "make3way"}

\* The hunks of both threads are parsed.
ThreadsRead == pc = "make3way"

\* Every hunk of THREAD stores, for its two sides, the lines OTHER and
\* disk[FILEC] hold in its ranges, each as With(line) gives it.
StoredLines(thread, other, With(_)) ==
    \A k \in 1..Len(thread) :
        LET h == thread[k]
        IN  /\ h.lines[FO] # NULL =>
                 /\ Len(h.lines[FO]) = D_NUMLINES(h, FO)
                 /\ \A i \in 1..Len(h.lines[FO]) :
                        h.lines[FO][i] = With(other[D_LOWLINE(h, FO) + i - 1])
            /\ h.lines[FC] # NULL =>
                 /\ Len(h.lines[FC]) = D_NUMLINES(h, FC)
                 /\ \A i \in 1..Len(h.lines[FC]) :
                        h.lines[FC][i] = With(disk[FILEC][D_LOWLINE(h, FC) + i - 1])

AsRead(line) == line

WithNewline(line) == IF line[Len(line)] = NL THEN line ELSE Append(line, NL)

\* C21 as stated: in every mode each line of a parsed hunk is stored as the
\* file holds it, without a newline where the file has none after its last
\* line.
C21_NewlineStrippedEveryMode ==
    /\ Thread1Read => StoredLines(thread1, disk[FILE1], AsRead)
    /\ ThreadsRead => StoredLines(thread0, disk[FILE0], AsRead)

\* C21: a line of a parsed hunk that the provider marks as lacking its newline
\* is stored without one when no edit script is made (the plain report and the
\* merge); when an edit script is made it is stored with a newline, like every
\* other line.
C21_NewlineStrippedUnlessEdscript ==
    /\ (Thread1Read /\ ~opt.edscript) => StoredLines(thread1, disk[FILE1], AsRead)
    /\ (ThreadsRead /\ ~opt.edscript) => StoredLines(thread0, disk[FILE0], AsRead)
    /\ (Thread1Read /\ opt.edscript) => StoredLines(thread1, disk[FILE1], WithNewline)
    /\ (ThreadsRead /\ opt.edscript) => StoredLines(thread0, disk[FILE0], WithNewline)

\* A merge whose two hunks each store a line without newline, one from the
\* common file and one from the other file.
C21_Witness ==
    /\ ThreadsRead /\ opt.merge
    /\ \E k \in 1..Len(thread1) : \E i \in 1..Len(thread1[k].lines[FC]) :
           thread1[k].lines[FC] # NULL /\ LastOf(thread1[k].lines[FC][i]) # NL
    /\ \E k \in 1..Len(thread0) : \E i \in 1..Len(thread0[k].lines[FO]) :
           thread0[k].lines[FO] # NULL /\ LastOf(thread0[k].lines[FO][i]) # NL

(***************************************************************************)
(* The sides of a parsed hunk, checked under SpecReconcile.                *)
(***************************************************************************)
\* What the provider can have printed for thread 1 to be parsed from it.
EntriesRead ==
    {es \in {DiffOutput(chain, 0, disk[FILEC]) : chain \in EditChains(MaxHunks)} :
        Len(es) = Len(thread1) /\ process_diff(es, opt.edscript) = thread1}

\* Side F of hunk H has no lines and its range is the point after which the
\* lines of the other side go.
EmptySide(h, f) ==
    /\ h.lines[f] = <<>>
    /\ D_HIGHLINE(h, f) = D_LOWLINE(h, f) - 1
    /\ h.lines[1 - f] # <<>>
    /\ Len(h.lines[1 - f]) = D_NUMLINES(h, 1 - f)

\* C22 as stated: a hunk parsed from an `a' control line has its common side
\* empty, a hunk parsed from a `d' control line the side of the other file.
C22_AddEmptiesCommon ==
    (pc = "diff0") =>
        \A es \in EntriesRead : \A k \in 1..Len(es) :
            /\ es[k].letter = "a" => EmptySide(thread1[k], FC)
            /\ es[k].letter = "d" => EmptySide(thread1[k], FO)

\* C22: a hunk parsed from an `a' control line has the side of the other file
\* (the provider's first file) empty, its range the point of insertion with
\* high = low - 1, and its lines are the common file's; a hunk parsed from a
\* `d' control line has the common side empty in the same way.
C22_AddEmptiesOther ==
    (pc = "diff0") =>
        \A es \in EntriesRead : \A k \in 1..Len(es) :
            /\ es[k].letter = "a" => EmptySide(thread1[k], FO)
            /\ es[k].letter = "d" => EmptySide(thread1[k], FC)

\* Thread 1 parsed from an `a' hunk followed by a `d' hunk.
C22_Witness ==
    /\ pc = "diff0"
    /\ \E es \in EntriesRead :
           Len(es) = 2 /\ es[1].letter = "a" /\ es[2].letter = "d"

(***************************************************************************)
(* Lines that start with a dot.  The runs of Spec on files that hold a     *)
(* line "." wherever the files of Spec hold a line "b".                    *)
(***************************************************************************)
Dotted(line) == IF line # <<>> /\ line[1] = 98 THEN <<46>> \o Tail(line) ELSE line

RECURSIVE DottedLines(_)
DottedLines(lines) ==
    IF lines = <<>> THEN <<>>
    ELSE <<Dotted(Head(lines))>> \o DottedLines(Tail(lines))

RECURSIVE DottedOutput(_)
DottedOutput(entries) ==
    IF entries = <<>> THEN <<>>
    ELSE <<[Head(entries) EXCEPT !.a = DottedLines(@), !.b = DottedLines(@)]>>
         \o DottedOutput(Tail(entries))

\* Lines 379-382 on such files.
ProcessDiffDotted ==
    /\ pc \in {"diff1", "diff0"}
    /\ \/ \* lines 1211-1223: the provider failed
          /\ fatal
          /\ UNCHANGED <<thread0, thread1, disk>>
       \/ ProcessEntries(Garbage, CommonFile, CommonFile)
       \/ \E chain \in EditChains(RunHunks) :
            \E view \in (IF pc = "diff1" THEN Views ELSE {CommonFile}) :
                ProcessEntries(DottedOutput(DiffOutput(chain, 0, view)),
                               DottedLines(ApplyEdits(chain, view, 1)),
                               DottedLines(view))
    /\ UNCHANGED <<argv, file, opt, diff_program, incompat, tag_strings, common, m, diff3, out,
                   conflicts_found>>

NextDotted ==
    \/ Getopt
    \/ CheckOptions
    \/ ChooseCommon
    \/ ProcessDiffDotted
    \/ M3Enter
    \/ M3Head
    \/ M3Shuffle
    \/ M3Build
    \/ OutputEdscript
    \/ OutputMerge
    \/ OutputDiff3
    \/ CheckStdout

SpecDotted == Init /\ [][NextDotted]_vars

\* The lines LO..HI a command line of an ed script names: [lo, hi, letter].
EdAddress(c) ==
    LET first == EdNumber(c, 1, 0)
        second == IF c[first.next] = 44 THEN EdNumber(c, first.next + 1, 0) ELSE first
    IN  [lo |-> first.val, hi |-> second.val, letter |-> c[second.next]]

\* The number of text lines after an a or c command: those before the ".".
EdTextLength(rest) ==
    (CHOOSE k \in 1..(Len(rest) + 1) :
        /\ k <= Len(rest) => rest[k] = <<46, NL>>
        /\ \A j \in 1..(k - 1) : rest[j] # <<46, NL>>) - 1

\* Every s command of the command lines CMDS names lines among INSLO..INSHI,
\* the lines the command before CMDS put in the buffer.
RECURSIVE UndotsInserted(_, _, _)
UndotsInserted(cmds, inslo, inshi) ==
    IF cmds = <<>> THEN TRUE
    ELSE LET c == EdAddress(Head(cmds))
             rest == Tail(cmds)
             n == EdTextLength(rest)
         IN  CASE c.letter = 97 ->
                    UndotsInserted(SubSeq(rest, n + 2, Len(rest)), c.lo + 1, c.lo + n)
               [] c.letter = 99 ->
                    UndotsInserted(SubSeq(rest, n + 2, Len(rest)), c.lo, c.lo + n - 1)
               [] c.letter = 115 ->
                    /\ inslo <= c.lo /\ c.hi <= inshi
                    /\ UndotsInserted(rest, 1, 0)
               [] OTHER -> UndotsInserted(rest, 1, 0)

\* C23: every s/^\.// command of an ed script names only lines that the a or c
\* command just before it put in.
C23_UndotOnlyInserted ==
    (Rendered /\ opt.edscript) => UndotsInserted(SplitLines(out), 1, 0)

(***************************************************************************)
(* The runs that write an ed script, with one of the options -A -e -E -x   *)
(* -X -3, on files that differ by up to MaxHunks hunks each.               *)
(***************************************************************************)
InitEd ==
    /\ pc = "getopt"
    /\ argv \in {<<c>> : c \in {"A", "e", "E", "x", "X", "3"}}
    /\ file = <<FileName(0), FileName(1), FileName(2)>>
    /\ opt = NoFlags
    /\ incompat = 0
    /\ diff_program = DEFAULT_DIFF_PROGRAM
    /\ tag_strings = <<>>
    /\ common = 0
    /\ thread0 = <<>>
    /\ thread1 = <<>>
    /\ m = NoLocals
    /\ diff3 = <<>>
    /\ out = <<>>
    /\ disk = NoFiles
    /\ conflicts_found = FALSE
    /\ exit_status = -1

NextEd ==
    \/ Getopt
    \/ CheckOptions
    \/ ChooseCommon
    \/ ProcessDiff(MaxHunks)
    \/ M3Enter
    \/ M3Head
    \/ M3Shuffle
    \/ M3Build
    \/ OutputEdscript
    \/ CheckStdout

SpecEd == InitEd /\ [][NextEd]_vars

\* The a, c and d commands among the command lines CMDS, in their order, each
\* as the lines it names.
RECURSIVE EdCommands(_)
EdCommands(cmds) ==
    IF cmds = <<>> THEN <<>>
    ELSE LET c == EdAddress(Head(cmds))
             rest == Tail(cmds)
         IN  CASE c.letter \in {97, 99} ->
                    <<c>> \o EdCommands(SubSeq(rest, EdTextLength(rest) + 2, Len(rest)))
               [] c.letter = 100 -> <<c>> \o EdCommands(rest)
               [] OTHER -> EdCommands(rest)

\* The last line of the buffer that the commands before command K of CS have
\* left as it was in MINE, with its number: an append after line N leaves
\* lines 1..N, a change or deletion of lines LO..HI leaves lines 1..LO-1.
Untouched(cs, k) ==
    IF k = 1 THEN Len(disk[FILE0])
    ELSE IF cs[k - 1].letter = 97 THEN cs[k - 1].lo ELSE cs[k - 1].lo - 1

\* C24: the a, c and d commands of an ed script name lines of MINE in
\* non-increasing order, the append after a conflict's last line before the
\* append ahead of its first line, and each names only lines that the commands
\* before it have not inserted, deleted or shifted.
C24_EdDescending ==
    (Rendered /\ opt.edscript) =>
        LET cs == EdCommands(SplitLines(out))
        IN  \A k \in 1..Len(cs) :
                /\ cs[k].lo <= cs[k].hi
                /\ cs[k].hi <= Untouched(cs, k)
                /\ k > 1 => cs[k].hi <= cs[k - 1].lo
                /\ cs[k].letter # 97 => cs[k].lo >= 1

\* A script for two blocks, the one later in MINE a conflict written as two
\* appends, the earlier one a change or a deletion.
C24_Witness ==
    /\ Rendered /\ opt.edscript /\ conflicts_found
    /\ LET cs == EdCommands(SplitLines(out))
       IN  /\ Len(cs) = 3
           /\ cs[1].letter = 97 /\ cs[2].letter = 97
           /\ cs[1].lo > cs[2].lo
           /\ cs[3].letter \in {99, 100}

(***************************************************************************)
(* The blocks' ranges and lines, checked under SpecReconcile.              *)
(***************************************************************************)
\* low_f (block K) - high_f (the block before it, zero_diff3 before the first)
BlockGap(k, f) ==
    D_LOWLINE(diff3[k], f) - D_HIGHLINE(IF k = 1 THEN zero_diff3 ELSE diff3[k - 1], f)

\* C25: between two successive blocks, and between the start of the files and
\* the first block, the three files have the same number of lines:
\* low_f (next) - high_f (previous) is the same for files 0, 1 and the common
\* file, for ranges mapped from a thread's own hunks and for ranges mapped
\* from the block before.
C25_EqualGaps ==
    \A k \in 1..Len(diff3) :
        /\ BlockGap(k, FILE0) = BlockGap(k, FILEC)
        /\ BlockGap(k, FILE1) = BlockGap(k, FILEC)

\* Two blocks with unchanged lines between them, the first with three ranges
\* of different lengths, the second from hunks of one thread alone.
C25_Witness ==
    /\ Len(diff3) = 2
    /\ D_NUMLINES(diff3[1], FILE0) # D_NUMLINES(diff3[1], FILEC)
    /\ D_NUMLINES(diff3[1], FILE1) # D_NUMLINES(diff3[1], FILEC)
    /\ D_NUMLINES(diff3[1], FILE0) # D_NUMLINES(diff3[1], FILE1)
    /\ diff3[2].correspond \in {DIFF_1ST, DIFF_2ND}
    /\ BlockGap(2, FILEC) >= 2

\* The hunks of m.using[d] that hold line N of file d.
Covering(d, n) ==
    {k \in 1..Len(m.using[d]) :
        D_LOWLINE(m.using[d][k], FO) <= n /\ n <= D_HIGHLINE(m.using[d][k], FO)}

\* The hunks of m.using[d] that end before line N of file d.
Before(d, n) == {k \in 1..Len(m.using[d]) : D_HIGHLINE(m.using[d][k], FO) < n}

\* The common line that line N of file d is, N a line of block B that no hunk
\* of thread d holds: counted on from the last hunk before it, or from the
\* low ends of B.
AlignedCommon(b, d, n) ==
    IF Before(d, n) = {}
    THEN n - D_LOWLINE(b, FILE0 + d) + D_LOWLINE(b, FILEC)
    ELSE LET h == m.using[d][CHOOSE k \in Before(d, n) : \A j \in Before(d, n) : j <= k]
         IN  n - D_HIGHLINE(h, FO) + D_HIGHLINE(h, FC)

\* C26: in the block using_to_diff3_block returns every slot of the three line
\* arrays holds a line.  A common slot holds the line a used hunk has for it;
\* a slot of file 0 or 1 holds the line of the thread's hunk over it, and with
\* no such hunk the common line aligned with it, so that a file whose thread
\* has no hunk in the block has the common file's lines.
C26_AllSlotsFilled ==
    JustBuilt =>
        LET b == last_diff3
        IN  /\ \A f \in {FILE0, FILE1, FILEC} :
                   /\ Len(b.lines[f]) = D_NUMLINES(b, f)
                   /\ \A i \in 1..Len(b.lines[f]) : b.lines[f][i] # NULL
            /\ \A n \in D_LOWLINE(b, FILEC)..D_HIGHLINE(b, FILEC) :
                   \E d \in 0..1 : \E k \in 1..Len(m.using[d]) :
                       LET h == m.using[d][k]
                       IN  /\ D_LOWLINE(h, FC) <= n /\ n <= D_HIGHLINE(h, FC)
                           /\ D_RELNUM(b, FILEC, n - D_LOWLINE(b, FILEC))
                                  = D_RELNUM(h, FC, n - D_LOWLINE(h, FC))
            /\ \A d \in 0..1 :
                   \A n \in D_LOWLINE(b, FILE0 + d)..D_HIGHLINE(b, FILE0 + d) :
                       LET line == D_RELNUM(b, FILE0 + d, n - D_LOWLINE(b, FILE0 + d))
                       IN  IF Covering(d, n) = {}
                           THEN LET c == AlignedCommon(b, d, n)
                                IN  /\ D_LOWLINE(b, FILEC) <= c
                                    /\ c <= D_HIGHLINE(b, FILEC)
                                    /\ line = D_RELNUM(b, FILEC, c - D_LOWLINE(b, FILEC))
                           ELSE \A k \in Covering(d, n) :
                                    line = D_RELNUM(m.using[d][k], FO,
                                                    n - D_LOWLINE(m.using[d][k], FO))
            /\ \A d \in 0..1 :
                   m.using[d] = <<>> =>
                       /\ D_NUMLINES(b, FILE0 + d) = D_NUMLINES(b, FILEC)
                       /\ b.lines[FILE0 + d] = b.lines[FILEC]

\* A block from hunks of both threads in which each of files 0 and 1 has a
\* line that no hunk of its own thread holds.
C26_Witness ==
    /\ JustBuilt
    /\ \A d \in 0..1 :
           /\ m.using[d] # <<>>
           /\ \E n \in D_LOWLINE(last_diff3, FILE0 + d)..D_HIGHLINE(last_diff3, FILE0 + d) :
                  Covering(d, n) = {}

(***************************************************************************)
(* A MINE that shrinks.  The runs of diff3 -m, alone or with one of -e -E  *)
(* -3, in which the bytes read from MINE for the merge are a beginning of  *)
(* what the provider read.                                                 *)
(***************************************************************************)
InitShrunk ==
    /\ pc = "getopt"
    /\ argv \in {<<"m">>, <<"e", "m">>, <<"E", "m">>, <<"3", "m">>}
    /\ file = <<FileName(0), FileName(1), FileName(2)>>
    /\ opt = NoFlags
    /\ incompat = 0
    /\ diff_program = DEFAULT_DIFF_PROGRAM
    /\ tag_strings = <<>>
    /\ common = 0
    /\ thread0 = <<>>
    /\ thread1 = <<>>
    /\ m = NoLocals
    /\ diff3 = <<>>
    /\ out = <<>>
    /\ disk = NoFiles
    /\ conflicts_found = FALSE
    /\ exit_status = -1

OutputMergeShrunk == OutputMergeOf(Beginnings(Flatten(disk[FILE0])))

NextShrunk ==
    \/ Getopt
    \/ CheckOptions
    \/ ChooseCommon
    \/ ProcessDiff(MaxHunks)
    \/ M3Enter
    \/ M3Head
    \/ M3Shuffle
    \/ M3Build
    \/ OutputMergeShrunk
    \/ CheckStdout

SpecShrunk == InitShrunk /\ [][NextShrunk]_vars

\* The number of whole lines read from stdin.
LinesOnStdin == Cardinality({i \in 1..Len(disk[STDIN]) : disk[STDIN][i] = NL})

\* The end of MINE comes in the last of the lines to skip for the last block
\* of the chain.
EndsInLastLine(k) ==
    /\ k = Len(diff3)
    /\ D_NUMLINES(diff3[k], FILE0) > 0
    /\ LinesOnStdin = D_HIGHLINE(diff3[k], FILE0) - 1

\* C27 as stated: a merge returns only if MINE held every line before each
\* emitted block and every line of the block's range in MINE.
C27_ShrunkAborts ==
    (Rendered /\ MergeMode) =>
        \A k \in EmittedBlocks : LinesOnStdin >= D_HIGHLINE(diff3[k], FILE0)

\* C27: a merge returns only if MINE held every line before each emitted block
\* and every line of the block's range in MINE, but for the last line of the
\* range of the chain's last block: when MINE ends in that line, or before its
\* first byte, the merge returns what it has written.  In every other case of
\* MINE ending among the lines to copy or to skip the run ends with status 2.
C27_ShrunkAbortsButInLastLine ==
    /\ (Rendered /\ MergeMode) =>
           \A k \in EmittedBlocks :
               LinesOnStdin >= D_HIGHLINE(diff3[k], FILE0) \/ EndsInLastLine(k)
    /\ (pc = "exit" /\ MergeMode
        /\ \E k \in EmittedBlocks :
               LinesOnStdin < D_HIGHLINE(diff3[k], FILE0) /\ ~EndsInLastLine(k)) =>
           exit_status = EXIT_TROUBLE

\* A merge that ended with status 2 after it had written lines: MINE ended
\* among the lines to skip for a block that is not the last one.
C27_Witness ==
    /\ pc = "exit" /\ MergeMode /\ exit_status = EXIT_TROUBLE
    /\ out # <<>>
    /\ \E k \in EmittedBlocks :
           /\ k < Len(diff3)
           /\ D_LOWLINE(diff3[k], FILE0) - 1 <= LinesOnStdin
           /\ LinesOnStdin < D_HIGHLINE(diff3[k], FILE0)

(***************************************************************************)
(* make_3way_diff runs to its end: the steps of SpecReconcile, for a       *)
(* thread 1 of up to RunHunks hunks and a thread 0 of up to MaxHunks, none *)
(* of which the sequential program puts off for ever.                      *)
(***************************************************************************)
NextReconcileFair ==
    \/ ProcessDiff(IF pc = "diff1" THEN RunHunks ELSE MaxHunks)
    \/ M3Enter
    \/ M3Head
    \/ M3Shuffle
    \/ M3Build

SpecReconcileFair ==
    InitReconcile /\ [][NextReconcileFair]_vars /\ WF_vars(NextReconcileFair)

\* What make_3way_diff has still to do: the hunks not yet taken, and the
\* block still to build for the hunks gathered.
StepsLeft ==
    2 * (Len(m.current[0]) + Len(m.current[1])) + (IF pc = "shuffle" THEN 1 ELSE 0)

Thread(d) == IF d = 0 THEN thread0 ELSE thread1

\* The hunks of thread d that make_3way_diff has taken from its list current.
Taken(d) == Len(Thread(d)) - Len(m.current[d])

InMake3way == pc \in {"sniff", "shuffle"}

\* The list current[d] is what remains of thread d, and using[d] holds the
\* hunks taken last, in the thread's order.
HunksInOrder ==
    InMake3way =>
        \A d \in 0..1 :
            /\ m.current[d] = SubSeq(Thread(d), Taken(d) + 1, Len(Thread(d)))
            /\ Len(m.using[d]) <= Taken(d)
            /\ m.using[d] = SubSeq(Thread(d), Taken(d) - Len(m.using[d]) + 1, Taken(d))

\* A block is built from at least one hunk, and while a block is being
\* gathered its hunks are not those of the blocks before: there are at most
\* as many blocks as hunks taken.
BlocksFromHunks ==
    /\ pc = "shuffle" =>
           /\ Len(m.using[0]) + Len(m.using[1]) >= 1
           /\ Len(diff3) + 1 <= (Taken(0) - Len(m.using[0])) + (Taken(1) - Len(m.using[1])) + 1
    /\ JustBuilt =>
           /\ Len(m.using[0]) + Len(m.using[1]) >= 1
           /\ Len(diff3) <= Taken(0) + Taken(1)
    /\ pc = "output" =>
           /\ m.current[0] = <<>> /\ m.current[1] = <<>>
           /\ Len(diff3) <= Len(thread0) + Len(thread1)
           /\ (Len(diff3) = 0) <=> (thread0 = <<>> /\ thread1 = <<>>)

\* A new gathering starts with the first hunk not yet taken, a hunk joins the
\* gathering from the head of its list, and a block is appended for each
\* gathering; each step inside make_3way_diff leaves less to do.
HunksOnce ==
    /\ (pc = "sniff" /\ pc' = "shuffle") =>
           \A d \in 0..1 : m'.using[d] \o m'.current[d] = m.current[d]
    /\ (pc = "shuffle" /\ pc' = "shuffle") =>
           \A d \in 0..1 : m'.using[d] \o m'.current[d] = m.using[d] \o m.current[d]
    /\ (pc = "shuffle" /\ pc' = "sniff") =>
           /\ m' = m
           /\ Len(diff3') = Len(diff3) + 1
           /\ SubSeq(diff3', 1, Len(diff3)) = diff3
    /\ (InMake3way /\ pc' \in {"sniff", "shuffle"}) => StepsLeft' < StepsLeft

\* C28: make_3way_diff comes to its end for every pair of chains (it returns,
\* or ends the run when a block cannot be built); each hunk of a chain is
\* taken once, in the chain's order, into the block being gathered; each block
\* is built from at least one hunk; on return no hunk is left, there are at
\* most as many blocks as hunks, and no block iff both chains are empty.
C28_TerminatesAssigningHunks ==
    /\ [](HunksInOrder /\ BlocksFromHunks)
    /\ [][HunksOnce]_vars
    /\ <>(pc \in {"output", "exit"})

\* make_3way_diff has returned three blocks for chains of two hunks and one.
C28_Witness ==
    /\ pc = "output"
    /\ Len(thread0) = 2 /\ Len(thread1) = 1
    /\ Len(diff3) = 3

(***************************************************************************)
(* make_3way_diff as a function of the two threads, for the comparison of  *)
(* its results on a pair of threads and on the pair exchanged.             *)
(***************************************************************************)
\* Lines 606-638: the inner loop.
RECURSIVE Gather(_)
Gather(locals) ==
    IF OtherIncorporated(locals) THEN Gather(ShuffleUp(locals)) ELSE locals

\* Lines 577-656: the outer loop from the lists CURRENT on, RESULT the blocks
\* built so far; [fatal, chain].
RECURSIVE Make3wayFrom(_, _)
Make3wayFrom(current, result) ==
    IF current[0] = <<>> /\ current[1] = <<>> THEN [fatal |-> FALSE, chain |-> result]
    ELSE LET locals == Gather(SetupWater(current))
             tmpblock == BuildBlock(locals, IF result = <<>> THEN zero_diff3
                                            ELSE result[Len(result)])
         IN  IF tmpblock = <<>> THEN [fatal |-> TRUE, chain |-> result]
             ELSE Make3wayFrom(locals.current, result \o tmpblock)

make_3way_diff(t0, t1) == Make3wayFrom((0 :> t0 @@ 1 :> t1), <<>>)

\* Block B with files 0 and 1 exchanged.
Exchanged(b) ==
    [correspond |-> CASE b.correspond = DIFF_1ST -> DIFF_2ND
                      [] b.correspond = DIFF_2ND -> DIFF_1ST
                      [] OTHER -> b.correspond,
     ranges |-> (FILE0 :> b.ranges[FILE1] @@ FILE1 :> b.ranges[FILE0]
                 @@ FILE2 :> b.ranges[FILE2]),
     lines |-> (FILE0 :> b.lines[FILE1] @@ FILE1 :> b.lines[FILE0]
                @@ FILE2 :> b.lines[FILE2])]

RECURSIVE ExchangedChain(_)
ExchangedChain(chain) ==
    IF chain = <<>> THEN <<>>
    ELSE <<Exchanged(Head(chain))>> \o ExchangedChain(Tail(chain))

\* What make_3way_diff returns for the threads exchanged is what it returns
\* for the threads, with files 0 and 1 exchanged in every block; it ends the
\* run for the one pair iff it does for the other.
Symmetric ==
    LET one == make_3way_diff(thread0, thread1)
        other == make_3way_diff(thread1, thread0)
    IN  /\ one.fatal = other.fatal
        /\ ~one.fatal => other.chain = ExchangedChain(one.chain)

\* C29 as stated: make_3way_diff on the two threads exchanged gives, for any
\* two chains, as many blocks with the same common ranges, the ranges and
\* lines of files 0 and 1 exchanged and DIFF_1ST exchanged with DIFF_2ND; the
\* chain built step by step is the function's.
C29_SymmetricForAllChains ==
    /\ pc = "make3way" => Symmetric
    /\ pc = "output" => diff3 = make_3way_diff(thread0, thread1).chain

\* C29: the same for chains in which successive hunks of a thread have a
\* common line between them, as the provider prints them.
C29_SymmetricForSeparatedChains ==
    /\ (pc = "make3way" /\ HunksSeparated(thread0) /\ HunksSeparated(thread1)) =>
           Symmetric
    /\ pc = "output" => diff3 = make_3way_diff(thread0, thread1).chain

\* Two separated chains of two hunks whose first hunks start on the same
\* common line, so that thread 0 is taken first whichever it is.
C29_Witness ==
    /\ pc = "make3way"
    /\ HunksSeparated(thread0) /\ HunksSeparated(thread1)
    /\ Len(thread0) = 2 /\ Len(thread1) = 2
    /\ thread0 # thread1
    /\ D_LOWLINE(thread0[1], FC) = D_LOWLINE(thread1[1], FC)
    /\ ~make_3way_diff(thread0, thread1).fatal

(***************************************************************************)
(* Nothing reaches stdout before the chain of blocks is whole.             *)
(***************************************************************************)
\* From the choice of the common file to the last block of make_3way_diff.
BeforeOutput == {"common", "diff1", "diff0", "make3way", "sniff", "shuffle"}

\* A step out of these stages writes nothing, and if it ends the run it ends
\* it in trouble.
TroubleWritesNothing ==
    pc \in BeforeOutput =>
        /\ out' = <<>>
        /\ pc' = "exit" => exit_status' = EXIT_TROUBLE

\* C30: while the two diffs are read and parsed and the blocks are built
\* stdout is empty; the renderers start on an empty stdout with the whole
\* chain of make_3way_diff before them; and a run that ends before them, by
\* the provider's failure, a diff that does not parse or common lines that
\* disagree, ends with status 2 and stdout still empty.
C30_NoOutputBeforeChain ==
    /\ [](pc \in BeforeOutput => out = <<>>)
    /\ [](pc = "output" =>
            /\ out = <<>>
            /\ ~make_3way_diff(thread0, thread1).fatal
            /\ diff3 = make_3way_diff(thread0, thread1).chain)
    /\ [][TroubleWritesNothing]_vars

\* A run with both diffs parsed, ended by the cross-check of the common lines.
C30_Witness ==
    /\ pc = "exit"
    /\ exit_status = EXIT_TROUBLE
    /\ out = <<>>
    /\ thread0 # <<>> /\ thread1 # <<>>
    /\ make_3way_diff(thread0, thread1).fatal

====
